---- MODULE Spec2Model ----
(***************************************************************************)
(* The activity classification and session aggregation pipeline of the     *)
(* activity-parser module: QualityAnalyzer, ContentExtractor,              *)
(* ActivityCategorizer, RuleEngine, SessionManager and the ActivityParser  *)
(* orchestrator that wires them together.                                  *)
(*                                                                         *)
(* Numbers.  Scores are fractions of 1.0; the model keeps them as integers *)
(* in units of 1/One, with One chosen so that every sub-score the code can *)
(* produce is an integer.  The final quality score is the quotient         *)
(* totalScore / totalWeight and is kept as the pair [num, den]; it is      *)
(* compared with a threshold by cross-multiplication, so no rounding is    *)
(* introduced.  Timestamps are milliseconds, on a clock whose origin is    *)
(* moved so that the values fit the model checker's integers.              *)
(*                                                                         *)
(* Strings.  Regular expressions, substring tests, lower-casing and URL    *)
(* parsing are tabulated over the sample strings the model draws its       *)
(* records from; each table states what the library call returns.          *)
(***************************************************************************)
EXTENDS Integers, Sequences, FiniteSets, TLC

(***************************************************************************)
(* Bounds of the model                                                     *)
(***************************************************************************)
\* number of ActivityParser operations in one behaviour of Spec
MaxOps == 4
\* number of parseActivity calls that precede the batch in SpecBatch
MaxPre == 1
\* length of the record list handed to batchParse
MaxBatch == 3
\* length of the rule list handed to the RuleEngine
MaxRules == 3
\* number of RuleEngine operations in one behaviour of SpecRule
MaxRuleOps == 2
\* number of SessionManager.addActivity calls in one behaviour of SpecSession
MaxAdds == 6
\* number of ActivityCategorizer operations in one behaviour of SpecCategorizer
MaxCatOps == 3
\* number of SessionManager operations in one behaviour of SpecSessions
MaxSessionOps == 4

(***************************************************************************)
(* Units                                                                   *)
(***************************************************************************)
One == 3 * 100000
Tenth(x) == (x * One) \div 10
Null == [null |-> TRUE]

Min(a, b) == IF a < b THEN a ELSE b
Max(a, b) == IF a > b THEN a ELSE b

(***************************************************************************)
(* Sample strings                                                          *)
(***************************************************************************)
TxtHello == "Hello world, this is a test"
TxtCode == "function calculateSum(a, b) { return a + b; }"
TxtDoc == "# Overview. This is a test project."
TxtXz == "xz"
TxtTest1 == "Test 1"

UrlGithub == "https://github.com/user/repo"
UrlYoutube == "https://youtube.com/watch?v=x"
UrlSearch == "https://google.com/search?q=x"
UrlBad == "not a url"

TitlePlain == "Untitled"
TitleJs == "src/components/Button.js - Visual Studio Code"

\* String.prototype.toLowerCase
toLowerCase(s) ==
  CASE s = "Brave" -> "brave"
    [] s = TxtHello -> "hello world, this is a test"
    [] s = TxtCode -> "function calculatesum(a, b) { return a + b; }"
    [] s = TxtDoc -> "# overview. this is a test project."
    [] s = TxtTest1 -> "test 1"
    [] s = TitlePlain -> "untitled"
    [] s = TitleJs -> "src/components/button.js - visual studio code"
    [] OTHER -> s

\* String.prototype.includes, on the strings above: the pairs <<s, sub>>
\* with sub a substring of s
includesTable ==
  { <<"brave", "brave">>, <<"chrome", "chrome">>, <<"slack", "slack">>,
    <<"vscode", "vscode">>, <<"vscode", "code">>,
    <<"github.com", "github.com">>,
    <<"youtube.com", "youtube.com">>, <<"youtube.com", "youtube">>,
    <<UrlGithub, "github.com">>,
    <<UrlYoutube, "youtube.com">>, <<UrlYoutube, "youtube">>,
    <<UrlSearch, "/search">>, <<"/search", "/search">>,
    <<"src/components/button.js - visual studio code", ".js">> }

includes(s, sub) == (s = sub) \/ (<<s, sub>> \in includesTable)

\* new URL(u): whether the constructor returns rather than throws
urlParses(u) == u \in {UrlGithub, UrlYoutube, UrlSearch}

\* new URL(u).hostname.toLowerCase()
urlHostname(u) ==
  CASE u = UrlGithub -> "github.com"
    [] u = UrlYoutube -> "youtube.com"
    [] u = UrlSearch -> "google.com"
    [] OTHER -> ""

\* new URL(u).pathname
urlPathname(u) ==
  CASE u = UrlGithub -> "/user/repo"
    [] u = UrlYoutube -> "/watch"
    [] u = UrlSearch -> "/search"
    [] OTHER -> ""

\* Regular expressions of the rule sets
ReIde == "vscode|intellij|sublime|atom|vim|emacs"
ReMarkdown == "^#{1,6}\\s+|^\\*\\s+|^\\d+\\.\\s+"
ReGithub == "github\\.com"
ReJsFile == "([^/\\\\]+)\\.js"
ReUnclosed == "("

\* new RegExp(p): whether the constructor returns rather than throws
regExpCompiles(p) == p # ReUnclosed

\* new RegExp(p).test(s)
regExpTest(p, s) ==
  \/ p = ReIde /\ s = "vscode"
  \/ p = ReMarkdown /\ s = TxtDoc
  \/ p = ReGithub /\ s = UrlGithub
  \/ p = ReJsFile /\ s = TitleJs

\* s.match(new RegExp(p)): m[1] || m[0] of the match (only used when it matches)
regExpCapture(p, s) ==
  CASE p = ReIde /\ s = "vscode" -> "vscode"
    [] p = ReMarkdown /\ s = TxtDoc -> "# "
    [] p = ReGithub /\ s = UrlGithub -> "github.com"
    [] p = ReJsFile /\ s = TitleJs -> "Button"
    [] OTHER -> ""

(***************************************************************************)
(* Raw records                                                             *)
(*   data: present = the payload object exists; keys = number of its own   *)
(*   keys; action, idle_time, keys_per_second = its fields ("" and -1      *)
(*   stand for undefined).                                                 *)
(*   context: present = the context object exists; "" stands for an        *)
(*   undefined field.  processed_text "" stands for undefined.             *)
(***************************************************************************)
NoData == [present |-> FALSE, keys |-> 0, action |-> "", idle_time |-> -1,
           keys_per_second |-> -1]
EmptyData == [present |-> TRUE, keys |-> 0, action |-> "", idle_time |-> -1,
              keys_per_second |-> -1]
ClickData == [present |-> TRUE, keys |-> 1, action |-> "click",
              idle_time |-> -1, keys_per_second |-> -1]
IdleData == [present |-> TRUE, keys |-> 1, action |-> "",
             idle_time |-> 400000, keys_per_second |-> -1]
FastData == [present |-> TRUE, keys |-> 1, action |-> "",
             idle_time |-> -1, keys_per_second |-> 25]

NoContext == [present |-> FALSE, application |-> "", window_title |-> "",
              process_name |-> "", url |-> ""]
Ctx(app, title, url) ==
  [present |-> TRUE, application |-> app, window_title |-> title,
   process_name |-> "", url |-> url]

Raw(id, ts, dev, sid, type, data, text, ctx) ==
  [id |-> id, timestamp |-> ts, device_id |-> dev, session_id |-> sid,
   type |-> type, data |-> data, processed_text |-> text, context |-> ctx]

(***************************************************************************)
(* QualityAnalyzer                                                         *)
(***************************************************************************)
\* text.length
textLength(t) ==
  CASE t = TxtHello -> 27 [] t = TxtCode -> 45 [] t = TxtDoc -> 35
    [] t = TxtXz -> 2 [] t = TxtTest1 -> 6 [] OTHER -> 0

\* text.split(/\s+/).filter(w => w.length > 0).length
wordCount(t) ==
  CASE t = TxtHello -> 6 [] t = TxtCode -> 9 [] t = TxtDoc -> 7
    [] t = TxtXz -> 1 [] t = TxtTest1 -> 2 [] OTHER -> 0

hasRepetitivePattern(t) == FALSE

looksLikeGibberish(t) == t = TxtXz

hasProperStructure(t) == t \in {TxtHello, TxtDoc, TxtTest1}

\* number of anomalyPatterns that match the text
anomalyPatternHits(t) == 0

calculateCompletenessScore(a) ==
  LET req(p) == IF p THEN 2 ELSE 0
      opt(p) == IF p THEN 1 ELSE 0
      \* score and fields, in halves
      score == req(a.id # "") + req(a.timestamp # 0) + req(a.device_id # "")
               + req(a.session_id # "") + req(a.type # "")
               + opt(a.data.present /\ a.data.keys > 0)
               + opt(a.processed_text # "") + opt(a.context.present)
      fields == req(a.id # "") + req(a.timestamp # 0) + req(a.device_id # "")
                + req(a.session_id # "") + req(a.type # "")
                + opt(a.data.present /\ a.data.keys > 0)
                + opt(a.processed_text # "") + opt(a.context.present)
  IN IF fields > 0 THEN (score * One) \div fields ELSE 0

calculateTextQualityScoreMutant(text, min_text_length) ==
  IF text = "" THEN 0
  ELSE
    LET s0 == One
        s1 == IF textLength(text) < min_text_length THEN (s0 * 5) \div 10 ELSE s0
        s2 == IF wordCount(text) < 3 THEN (s1 * 7) \div 10 ELSE s1
        s3 == IF hasRepetitivePattern(text) THEN (s2 * 6) \div 10 ELSE s2
        s4 == IF looksLikeGibberish(text) THEN (s3 * 3) \div 10 ELSE s3
        s5 == IF hasProperStructure(text) THEN (s4 * 12) \div 10 ELSE s4
    IN s5

calculateTextQualityScore(text, min_text_length) ==
  IF text = "" THEN 0
  ELSE
    LET s0 == One
        s1 == IF textLength(text) < min_text_length THEN (s0 * 5) \div 10 ELSE s0
        s2 == IF wordCount(text) < 3 THEN (s1 * 7) \div 10 ELSE s1
        s3 == IF hasRepetitivePattern(text) THEN (s2 * 6) \div 10 ELSE s2
        s4 == IF looksLikeGibberish(text) THEN (s3 * 3) \div 10 ELSE s3
        s5 == IF hasProperStructure(text) THEN (s4 * 12) \div 10 ELSE s4
    IN Min(One, s5)

isValidUrl(url) == urlParses(url)

calculateContextScore(context) ==
  LET \* score and fields, in halves
      present == (IF context.application # "" THEN 2 ELSE 0)
                 + (IF context.window_title # "" THEN 2 ELSE 0)
                 + (IF context.process_name # "" THEN 1 ELSE 0)
                 + (IF context.url # "" THEN 1 ELSE 0)
      score == present
               - (IF context.url # "" /\ ~isValidUrl(context.url) THEN 1 ELSE 0)
      fields == present
  IN IF fields > 0 THEN Max(0, (score * One) \div fields) ELSE 0

DayMs == 24 * 60 * 60 * 1000

calculateTemporalScore(a, now) ==
  IF a.timestamp = 0 THEN 0
  ELSE IF a.timestamp > now THEN Tenth(3)
  ELSE IF now - a.timestamp > DayMs THEN Tenth(7)
  ELSE One

detectAnomalies(a) ==
  LET anomalyCount ==
        (IF a.processed_text # "" THEN anomalyPatternHits(a.processed_text) ELSE 0)
        + (IF a.type = "keyboard" /\ a.data.present /\ a.data.keys_per_second > 20
           THEN 1 ELSE 0)
        + (IF a.type = "mouse" /\ a.processed_text # "" THEN 1 ELSE 0)
  IN IF anomalyCount = 0 THEN One ELSE Max(Tenth(3), One - anomalyCount * Tenth(2))

\* the weights array, in tenths
weights == <<2, 3, 2, 2, 1>>

\* scores, as analyze pushes them
qualitySubScores(a, thresholds, now) ==
  <<calculateCompletenessScore(a)>>
  \o (IF a.processed_text # ""
      THEN <<calculateTextQualityScore(a.processed_text, thresholds.min_text_length)>>
      ELSE <<>>)
  \o (IF a.context.present THEN <<calculateContextScore(a.context)>> ELSE <<>>)
  \o <<calculateTemporalScore(a, now)>>
  \o <<detectAnomalies(a)>>

RECURSIVE SumTo(_, _)
\* f[1] + ... + f[n]
SumTo(f, n) == IF n = 0 THEN 0 ELSE f[n] + SumTo(f, n - 1)

\* finalScore of analyze, as the fraction num / den (in units of 1/One)
analyze(a, thresholds, now) ==
  LET scores == qualitySubScores(a, thresholds, now)
      n == Len(scores)
      totalScore == SumTo([i \in 1..n |-> scores[i] * weights[i]], n)
      totalWeight == SumTo([i \in 1..n |-> weights[i]], n)
  IN IF totalWeight > 0 THEN [num |-> totalScore, den |-> totalWeight]
     ELSE [num |-> 0, den |-> 1]

\* qualityScore < min_confidence, with min_confidence in units of 1/One
scoreBelow(q, min_confidence) == q.num < min_confidence * q.den

(***************************************************************************)
(* Outcomes of code that may throw                                         *)
(***************************************************************************)
Returned(v) == [threw |-> FALSE, value |-> v]
Threw == [threw |-> TRUE, value |-> Null]

(***************************************************************************)
(* ActivityParser.determineActivityType                                    *)
(***************************************************************************)
looksLikeCode(t) == t = TxtCode

looksLikeDocumentation(t) == t = TxtDoc

browsers == {"chrome", "firefox", "safari", "edge", "opera", "brave"}

commApps == {"slack", "teams", "discord", "telegram", "whatsapp", "skype", "zoom"}

isBrowser(app) ==
  IF app = "" THEN FALSE
  ELSE \E browser \in browsers : includes(toLowerCase(app), browser)

isCommunicationApp(app) ==
  IF app = "" THEN FALSE
  ELSE \E commApp \in commApps : includes(toLowerCase(app), commApp)

\* an outcome: reading raw.data.action throws when raw.data is undefined
determineActivityType(raw) ==
  CASE raw.type = "keyboard" ->
         IF raw.processed_text # "" /\ textLength(raw.processed_text) > 10
         THEN IF looksLikeCode(raw.processed_text) THEN Returned("coding")
              ELSE IF looksLikeDocumentation(raw.processed_text)
                   THEN Returned("documenting")
                   ELSE Returned("typing")
         ELSE Returned("typing")
    [] raw.type = "mouse" ->
         IF ~raw.data.present THEN Threw
         ELSE IF raw.data.action = "click" THEN Returned("clicking")
         ELSE IF raw.data.action = "scroll" THEN Returned("scrolling")
         ELSE Returned("reading")
    [] raw.type \in {"window", "application"} ->
         IF isBrowser(raw.context.application) THEN Returned("browsing")
         ELSE IF isCommunicationApp(raw.context.application)
              THEN Returned("communicating")
              ELSE Returned("reading")
    [] OTHER -> Returned("idle")

(***************************************************************************)
(* ContentExtractor.  The content block is modelled by its text, language, *)
(* urls and actions; keywords and files are functions of the text and the  *)
(* window title alone and are left out.                                    *)
(***************************************************************************)
detectLanguage(text) == "en"

\* URL.toString() after the tracking parameters are removed; unparseable
\* input is returned as it is.  None of the sample URLs changes.
cleanUrl(url) == url

extractUrls(activity) ==
  IF activity.context.url # "" THEN <<cleanUrl(activity.context.url)>> ELSE <<>>

\* an outcome: new URL(url) throws on an unparseable url
extractApplicationActions(activity) ==
  LET app == toLowerCase(activity.context.application)
  IN IF app = "" THEN Returned(<<>>)
     ELSE IF (includes(app, "chrome") \/ includes(app, "firefox"))
             /\ activity.context.url # ""
          THEN IF ~urlParses(activity.context.url) THEN Threw
               ELSE IF includes(urlPathname(activity.context.url), "/search")
                    THEN Returned(<<"web_search">>)
                    ELSE Returned(<<>>)
          ELSE Returned(<<>>)

extractActions(activity) ==
  LET mouse == IF activity.type = "mouse" /\ activity.data.present
                  /\ activity.data.action # ""
               THEN <<activity.data.action>> ELSE <<>>
      appActions == IF activity.context.application # ""
                    THEN extractApplicationActions(activity)
                    ELSE Returned(<<>>)
  IN IF appActions.threw THEN Threw ELSE Returned(mouse \o appActions.value)

extract(activity, extraction) ==
  LET actions == extractActions(activity)
  IN IF actions.threw THEN Threw
     ELSE Returned(
       [text |-> activity.processed_text,
        language |-> IF activity.processed_text # ""
                        /\ extraction.enable_language_detection
                     THEN detectLanguage(activity.processed_text) ELSE "",
        urls |-> extractUrls(activity),
        actions |-> actions.value])

(***************************************************************************)
(* Maps (JavaScript Map and plain objects used as maps)                    *)
(***************************************************************************)
EmptyMap == [k \in {} |-> ""]
MapHas(m, k) == k \in DOMAIN m
MapSet(m, k, v) == [x \in (DOMAIN m) \cup {k} |-> IF x = k THEN v ELSE m[x]]

\* { ...old, ...new } on objects
Spread(old, new) ==
  [k \in (DOMAIN old) \cup (DOMAIN new) |-> IF k \in DOMAIN new THEN new[k] ELSE old[k]]

(***************************************************************************)
(* ActivityCategorizer                                                     *)
(***************************************************************************)
knownProductive ==
  {"vscode", "visual studio", "intellij", "sublime", "atom", "vim", "emacs",
   "excel", "word", "powerpoint", "notion", "obsidian"}
knownCommunication ==
  {"slack", "teams", "discord", "telegram", "whatsapp", "skype", "zoom",
   "outlook", "gmail"}
knownEntertainment == {"steam", "epic games", "vlc", "spotify"}
knownBrowsers == {"chrome", "firefox", "safari", "edge"}

\* the categoryCache after initializeCache on an empty cache
initializeCache ==
  [app \in knownProductive \cup knownCommunication \cup knownEntertainment
           \cup knownBrowsers |->
     IF app \in knownProductive THEN "productive"
     ELSE IF app \in knownCommunication THEN "communication"
     ELSE IF app \in knownEntertainment THEN "entertainment"
     ELSE "neutral"]

categorizeByType(type) ==
  CASE type \in {"coding", "documenting"} -> "productive"
    [] type = "communicating" -> "communication"
    [] type = "browsing" -> "neutral"
    [] type = "idle" -> "break"
    [] OTHER -> "neutral"

\* "" stands for null
categorizeByApplication(app, config) ==
  IF app = "" THEN ""
  ELSE IF \E prodApp \in config.productive_apps : includes(app, toLowerCase(prodApp))
       THEN "productive"
  ELSE IF \E distApp \in config.distracting_apps : includes(app, toLowerCase(distApp))
       THEN "distracting"
  ELSE IF \E commApp \in config.communication_apps : includes(app, toLowerCase(commApp))
       THEN "communication"
  ELSE IF \E learnApp \in config.learning_apps : includes(app, toLowerCase(learnApp))
       THEN "learning"
  ELSE ""

socialMedia == {"facebook.com", "twitter.com", "instagram.com", "reddit.com",
                "tiktok.com", "linkedin.com"}
entertainment == {"youtube.com", "netflix.com", "twitch.tv", "spotify.com",
                  "soundcloud.com"}
learning == {"coursera.org", "udemy.com", "edx.org", "khanacademy.org",
             "skillshare.com", "docs.", "developer.", "learn."}
development == {"github.com", "gitlab.com", "bitbucket.org", "stackoverflow.com",
                "npmjs.com", "pypi.org"}

\* "" stands for null; an unparseable url is caught and gives null
categorizeByUrl(url) ==
  IF ~urlParses(url) THEN ""
  ELSE LET domain == urlHostname(url)
       IN IF \E site \in socialMedia : includes(domain, site) THEN "distracting"
          ELSE IF \E site \in entertainment : includes(domain, site)
               THEN "entertainment"
          ELSE IF \E site \in learning : includes(domain, site) THEN "learning"
          ELSE IF \E site \in development : includes(domain, site) THEN "productive"
          ELSE ""

\* categorize: [category, cache], the value returned and the categoryCache after
categorize(activity, type, config, cache) ==
  LET app == toLowerCase(activity.context.application)
  IN IF MapHas(cache, app) THEN [category |-> cache[app], cache |-> cache]
     ELSE
       LET byType == categorizeByType(type)
           appCategory == categorizeByApplication(app, config)
           c1 == IF appCategory # "" THEN appCategory ELSE byType
           urlCategory == IF activity.context.url # ""
                          THEN categorizeByUrl(activity.context.url) ELSE ""
           c2 == IF urlCategory # "" THEN urlCategory ELSE c1
       IN [category |-> c2, cache |-> MapSet(cache, app, c2)]

(***************************************************************************)
(* RuleEngine                                                              *)
(*   A value read from a record or held by a condition is tagged with its  *)
(*   JavaScript type: kind is "string", "number" or "undefined".           *)
(***************************************************************************)
Str(s) == [kind |-> "string", s |-> s, n |-> 0]
Num(n) == [kind |-> "number", s |-> "", n |-> n]
Undefined == [kind |-> "undefined", s |-> "", n |-> 0]

StrOrUndefined(s) == IF s = "" THEN Undefined ELSE Str(s)

Cond(field, operator, value) ==
  [field |-> field, operator |-> operator, value |-> value]
Action(type, value) ==
  [type |-> type, value |-> value, field |-> "", pattern |-> "", target |-> ""]
ExtractAction(field, pattern, target) ==
  [type |-> "extract_content", value |-> "", field |-> field,
   pattern |-> pattern, target |-> target]
Rule(id, priority, enabled, conditions, actions) ==
  [id |-> id, priority |-> priority, enabled |-> enabled,
   conditions |-> conditions, actions |-> actions]

\* dot-path lookup into the raw record
getFieldValue(activity, field) ==
  CASE field = "id" -> StrOrUndefined(activity.id)
    [] field = "type" -> StrOrUndefined(activity.type)
    [] field = "session_id" -> StrOrUndefined(activity.session_id)
    [] field = "processed_text" -> StrOrUndefined(activity.processed_text)
    [] field = "context.application" ->
         IF activity.context.present THEN StrOrUndefined(activity.context.application)
         ELSE Undefined
    [] field = "context.window_title" ->
         IF activity.context.present THEN StrOrUndefined(activity.context.window_title)
         ELSE Undefined
    [] field = "context.url" ->
         IF activity.context.present THEN StrOrUndefined(activity.context.url)
         ELSE Undefined
    [] field = "data.idle_time" ->
         IF activity.data.present /\ activity.data.idle_time >= 0
         THEN Num(activity.data.idle_time) ELSE Undefined
    [] field = "data.keys_per_second" ->
         IF activity.data.present /\ activity.data.keys_per_second >= 0
         THEN Num(activity.data.keys_per_second) ELSE Undefined
    [] OTHER -> Undefined

\* an outcome: new RegExp throws on an invalid pattern
evaluateCondition(condition, activity) ==
  LET value == getFieldValue(activity, condition.field)
  IN CASE condition.operator = "equals" -> Returned(value = condition.value)
       [] condition.operator = "contains" ->
            Returned(value.kind = "string"
                     /\ includes(toLowerCase(value.s), toLowerCase(condition.value.s)))
       [] condition.operator = "matches" ->
            IF value.kind # "string" THEN Returned(FALSE)
            ELSE IF ~regExpCompiles(condition.value.s) THEN Threw
            ELSE Returned(regExpTest(condition.value.s, value.s))
       [] condition.operator = "greater_than" ->
            Returned(value.kind = "number" /\ value.n > condition.value.n)
       [] condition.operator = "less_than" ->
            Returned(value.kind = "number" /\ value.n < condition.value.n)
       [] OTHER -> Returned(FALSE)

RECURSIVE everyCondition(_, _, _)
\* conditions.every(...) from index i on: stops at the first false condition
everyCondition(conditions, activity, i) ==
  IF i > Len(conditions) THEN Returned(TRUE)
  ELSE LET c == evaluateCondition(conditions[i], activity)
       IN IF c.threw THEN Threw
          ELSE IF ~c.value THEN Returned(FALSE)
          ELSE everyCondition(conditions, activity, i + 1)

evaluateConditions(conditions, activity) == everyCondition(conditions, activity, 1)

EmptyResult ==
  [type |-> "", category |-> "", tags |-> <<>>, content |-> EmptyMap,
   applied_rules |-> <<>>]

\* an outcome: the result after the action's effect
extractContent(params, activity, result) ==
  LET value == getFieldValue(activity, params.field)
  IN IF value.kind = "string" /\ params.pattern # ""
     THEN IF ~regExpCompiles(params.pattern) THEN Threw
          ELSE IF regExpTest(params.pattern, value.s)
               THEN Returned([result EXCEPT !.content =
                      MapSet(@, params.target, regExpCapture(params.pattern, value.s))])
               ELSE Returned(result)
     ELSE Returned(result)

applyAction(action, activity, result) ==
  CASE action.type = "set_type" -> Returned([result EXCEPT !.type = action.value])
    [] action.type = "set_category" ->
         Returned([result EXCEPT !.category = action.value])
    [] action.type = "add_tag" ->
         Returned([result EXCEPT !.tags = Append(@, action.value)])
    [] action.type = "extract_content" -> extractContent(action, activity, result)
    [] OTHER -> Returned(result)

RECURSIVE applyActions(_, _, _, _)
applyActions(actions, activity, result, i) ==
  IF i > Len(actions) THEN Returned(result)
  ELSE LET r == applyAction(actions[i], activity, result)
       IN IF r.threw THEN Threw
          ELSE applyActions(actions, activity, r.value, i + 1)

isExclusiveRuleMutant(rule) == FALSE

isExclusiveRule(rule) ==
  \E i \in 1..Len(rule.actions) :
    rule.actions[i].type \in {"set_type", "set_category"}

recordHitMutant(ruleHits, ruleId) == ruleHits

recordHit(ruleHits, ruleId) == [ruleHits EXCEPT ![ruleId] = @ + 1]

\* getHitRate: an entry for each rule id the ruleHits map has a key for (the
\* ids with at least one hit)
getHitRate(ruleHits) ==
  [ruleId \in {id \in DOMAIN ruleHits : ruleHits[id] > 0} |-> ruleHits[ruleId]]

RECURSIVE applyFrom(_, _, _, _, _)
\* the loop of apply from rule index i on: [threw, result, ruleHits]
applyFrom(rules, activity, result, ruleHits, i) ==
  IF i > Len(rules) THEN [threw |-> FALSE, result |-> result, ruleHits |-> ruleHits]
  ELSE
    LET rule == rules[i]
    IN IF ~rule.enabled THEN applyFrom(rules, activity, result, ruleHits, i + 1)
       ELSE
         LET m == evaluateConditions(rule.conditions, activity)
         IN IF m.threw
            THEN [threw |-> TRUE, result |-> result, ruleHits |-> ruleHits]
            ELSE IF ~m.value
            THEN applyFrom(rules, activity, result, ruleHits, i + 1)
            ELSE
              LET acted == applyActions(rule.actions, activity, result, 1)
              IN IF acted.threw
                 THEN [threw |-> TRUE, result |-> result, ruleHits |-> ruleHits]
                 ELSE
                   LET r2 == [acted.value EXCEPT !.applied_rules = Append(@, rule.id)]
                       h2 == recordHit(ruleHits, rule.id)
                   IN IF isExclusiveRule(rule)
                      THEN [threw |-> FALSE, result |-> r2, ruleHits |-> h2]
                      ELSE applyFrom(rules, activity, r2, h2, i + 1)

\* apply: [threw, result, ruleHits] (the result returned, unless it threw, and
\* the hit counters after the call)
apply(rules, ruleHits, activity) == applyFrom(rules, activity, EmptyResult, ruleHits, 1)

RECURSIVE insertByPriority(_, _)
\* rule placed after every rule of priority >= its own (the sort is stable)
insertByPriority(sorted, rule) ==
  IF sorted = <<>> THEN <<rule>>
  ELSE IF Head(sorted).priority >= rule.priority
       THEN <<Head(sorted)>> \o insertByPriority(Tail(sorted), rule)
       ELSE <<rule>> \o sorted

RECURSIVE sortFrom(_, _, _)
sortFrom(rules, sorted, i) ==
  IF i > Len(rules) THEN sorted
  ELSE sortFrom(rules, insertByPriority(sorted, rules[i]), i + 1)

sortRulesByPriorityMutant(rules) == rules

\* [...rules].sort((a, b) => b.priority - a.priority)
sortRulesByPriority(rules) == sortFrom(rules, <<>>, 1)

(***************************************************************************)
(* SessionManager                                                          *)
(*   sessions and activityBuffer are maps keyed by session id.  A missing  *)
(*   end_time is NoTime; a missing duration is 0 (the code reads a         *)
(*   duration with "|| 0" and only ever stores a positive one).            *)
(***************************************************************************)
MAX_IDLE_TIME == 5 * 60 * 1000
BufferCap == 100
TopApplications == 5
NoTime == -1

createSessionMutant(activity) ==
  [session_id |-> activity.session_id, device_id |-> activity.device_id,
   start_time |-> 0, end_time |-> NoTime, activities |-> <<>>]

createSession(activity) ==
  [session_id |-> activity.session_id, device_id |-> activity.device_id,
   start_time |-> activity.timestamp, end_time |-> NoTime, activities |-> <<>>]

bufferActivityMutant(activityBuffer, sessionId, activity) ==
  LET buffer == IF MapHas(activityBuffer, sessionId) THEN activityBuffer[sessionId]
                ELSE <<>>
      pushed == Append(buffer, activity)
  IN MapSet(activityBuffer, sessionId,
            IF Len(pushed) > BufferCap THEN buffer ELSE pushed)

\* bufferActivity: push, then shift while the buffer is over MAX_BUFFER_SIZE
bufferActivity(activityBuffer, sessionId, activity) ==
  LET buffer == IF MapHas(activityBuffer, sessionId) THEN activityBuffer[sessionId]
                ELSE <<>>
      pushed == Append(buffer, activity)
  IN MapSet(activityBuffer, sessionId,
            IF Len(pushed) > BufferCap THEN Tail(pushed) ELSE pushed)

addActivityMutant(sessions, activityBuffer, activity) ==
  LET sessionId == activity.session_id
      session == IF MapHas(sessions, sessionId) THEN sessions[sessionId]
                 ELSE createSession(activity)
      pushed == [session EXCEPT !.activities = Append(@, activity)]
      ended == [pushed EXCEPT !.end_time = activity.timestamp]
  IN [sessions |-> MapSet(sessions, sessionId, ended),
      activityBuffer |-> bufferActivity(activityBuffer, sessionId, activity)]

\* addActivity: [sessions, activityBuffer] after the call
addActivity(sessions, activityBuffer, activity) ==
  LET sessionId == activity.session_id
      session == IF MapHas(sessions, sessionId) THEN sessions[sessionId]
                 ELSE createSession(activity)
      pushed == [session EXCEPT !.activities = Append(@, activity)]
      ended == IF pushed.end_time = NoTime \/ activity.timestamp > pushed.end_time
               THEN [pushed EXCEPT !.end_time = activity.timestamp]
               ELSE pushed
  IN [sessions |-> MapSet(sessions, sessionId, ended),
      activityBuffer |-> bufferActivity(activityBuffer, sessionId, activity)]

\* buffer.findIndex(a => a.id === id), 1-based; 0 when there is none
findIndex(buffer, id) ==
  IF \E i \in 1..Len(buffer) : buffer[i].id = id
  THEN CHOOSE i \in 1..Len(buffer) :
         buffer[i].id = id /\ \A j \in 1..(i - 1) : buffer[j].id # id
  ELSE 0

calculateDurationMutant(activityBuffer, activity) ==
  LET buffer == IF MapHas(activityBuffer, activity.session_id)
                THEN activityBuffer[activity.session_id] ELSE <<>>
  IN IF Len(buffer) < 2 THEN 0
     ELSE LET currentIndex == findIndex(buffer, activity.id)
          IN IF currentIndex <= 1 THEN 0
             ELSE LET duration == activity.timestamp - buffer[currentIndex - 1].timestamp
                  IN IF duration > 0 /\ duration <= MAX_IDLE_TIME THEN duration ELSE 0

\* calculateDuration: the duration, 0 standing for null
calculateDuration(activityBuffer, activity) ==
  LET buffer == IF MapHas(activityBuffer, activity.session_id)
                THEN activityBuffer[activity.session_id] ELSE <<>>
  IN IF Len(buffer) < 2 THEN 0
     ELSE LET currentIndex == findIndex(buffer, activity.id)
          IN IF currentIndex <= 1 THEN 0
             ELSE LET duration == activity.timestamp - buffer[currentIndex - 1].timestamp
                  IN IF duration > 0 /\ duration < MAX_IDLE_TIME THEN duration ELSE 0

isOlderMutant(sessionAge, cutoffTime) == sessionAge <= cutoffTime

\* sessionAge < cutoffTime
isOlder(sessionAge, cutoffTime) == sessionAge < cutoffTime

\* session.end_time ? session.end_time.getTime() : session.start_time.getTime()
sessionAge(session) ==
  IF session.end_time # NoTime THEN session.end_time ELSE session.start_time

cleanupOldSessionsMutant(sessions, activityBuffer, now, maxAge) ==
  LET cutoffTime == now - maxAge
      deleted == {sessionId \in DOMAIN sessions :
                    isOlder(sessionAge(sessions[sessionId]), cutoffTime)}
  IN [sessions |-> [sessionId \in (DOMAIN sessions) \ deleted |-> sessions[sessionId]],
      activityBuffer |-> activityBuffer]

\* cleanupOldSessions: [sessions, activityBuffer] after the call
cleanupOldSessions(sessions, activityBuffer, now, maxAge) ==
  LET cutoffTime == now - maxAge
      deleted == {sessionId \in DOMAIN sessions :
                    isOlder(sessionAge(sessions[sessionId]), cutoffTime)}
  IN [sessions |-> [sessionId \in (DOMAIN sessions) \ deleted |-> sessions[sessionId]],
      activityBuffer |-> [sessionId \in (DOMAIN activityBuffer) \ deleted |->
                            activityBuffer[sessionId]]]

RECURSIVE totalOver(_, _)
\* total += session.activities.length, over the sessions named
totalOver(sessions, sessionIds) ==
  IF sessionIds = {} THEN 0
  ELSE LET sessionId == CHOOSE id \in sessionIds : TRUE
       IN Len(sessions[sessionId].activities)
          + totalOver(sessions, sessionIds \ {sessionId})

getTotalActivities(sessions) == totalOver(sessions, DOMAIN sessions)

MapGet0Mutant(m, k) == 0

\* (m[k] || 0)
MapGet0(m, k) == IF MapHas(m, k) THEN m[k] ELSE 0

RECURSIVE seqIndexOf(_, _, _)
\* index of the entry named name in an insertion-ordered list, 0 if none
seqIndexOf(entries, name, i) ==
  IF i > Len(entries) THEN 0
  ELSE IF entries[i].name = name THEN i ELSE seqIndexOf(entries, name, i + 1)

\* Map.set on an insertion-ordered Map of name -> number, adding d
orderedAdd(entries, name, d) ==
  LET i == seqIndexOf(entries, name, 1)
  IN IF i = 0 THEN Append(entries, [name |-> name, duration |-> d])
     ELSE [entries EXCEPT ![i].duration = @ + d]

RECURSIVE insertByDuration(_, _)
\* entry placed after every entry of duration >= its own (the sort is stable)
insertByDuration(sorted, e) ==
  IF sorted = <<>> THEN <<e>>
  ELSE IF Head(sorted).duration >= e.duration
       THEN <<Head(sorted)>> \o insertByDuration(Tail(sorted), e)
       ELSE <<e>> \o sorted

RECURSIVE sortByDurationFrom(_, _, _)
sortByDurationFrom(entries, sorted, i) ==
  IF i > Len(entries) THEN sorted
  ELSE sortByDurationFrom(entries, insertByDuration(sorted, entries[i]), i + 1)

sortByDurationMutant(entries) == entries

\* entries.sort((a, b) => b[1] - a[1])
sortByDuration(entries) == sortByDurationFrom(entries, <<>>, 1)

RECURSIVE countCategories(_, _, _)
\* categoryCounts, insertion-ordered: entries [name |-> category, duration |-> count]
countCategories(appActivities, counts, i) ==
  IF i > Len(appActivities) THEN counts
  ELSE countCategories(appActivities,
                       orderedAdd(counts, appActivities[i].category, 1), i + 1)

RECURSIVE dominantFrom(_, _, _, _)
dominantFrom(counts, maxCount, dominantCategory, i) ==
  IF i > Len(counts) THEN dominantCategory
  ELSE IF counts[i].duration > maxCount
       THEN dominantFrom(counts, counts[i].duration, counts[i].name, i + 1)
       ELSE dominantFrom(counts, maxCount, dominantCategory, i + 1)

getApplicationCategory(activities, appName) ==
  LET appActivities == SelectSeq(activities, LAMBDA a : a.application = appName)
  IN IF Len(appActivities) = 0 THEN "neutral"
     ELSE dominantFrom(countCategories(appActivities, <<>>, 1), 0, "neutral", 1)

RECURSIVE Gcd(_, _)
Gcd(a, b) == IF b = 0 THEN a ELSE Gcd(b, a % b)

\* the fraction num / den in lowest terms
Fraction(num, den) ==
  LET g == Gcd(num, den)
  IN IF g = 0 THEN [num |-> 0, den |-> 1] ELSE [num |-> num \div g, den |-> den \div g]

\* weights of calculateProductivityScore, in tenths; -1 for a category not listed
categoryWeight(category) ==
  CASE category = "productive" -> 10
    [] category = "learning" -> 9
    [] category = "communication" -> 7
    [] category = "neutral" -> 5
    [] category = "break" -> 4
    [] category = "entertainment" -> 2
    [] category = "distracting" -> 0
    [] OTHER -> -1

\* weights[category] || 0.5, in tenths
weightOrDefault(category) ==
  IF categoryWeight(category) <= 0 THEN 5 ELSE categoryWeight(category)

RECURSIVE SumOver(_, _)
\* the sum of f over the finite set S
SumOver(f, S) ==
  IF S = {} THEN 0
  ELSE LET x == CHOOSE y \in S : TRUE IN f[x] + SumOver(f, S \ {x})

\* the score, 0..100, as a fraction in lowest terms
calculateProductivityScore(categoryBreakdown, activeDuration, totalDuration) ==
  IF totalDuration = 0 THEN Fraction(0, 1)
  ELSE
    LET cats == DOMAIN categoryBreakdown
        \* weightedSum in tenths
        weightedSum == SumOver([c \in cats |-> weightOrDefault(c) * categoryBreakdown[c]],
                               cats)
        totalWeight == SumOver(categoryBreakdown, cats)
    IN IF totalWeight = 0 THEN Fraction(0, 1)
       ELSE
         LET base == Fraction(weightedSum * 10, totalWeight)
             score == IF activeDuration * 10 > 8 * totalDuration
                      THEN Fraction(base.num * 11, base.den * 10)
                      ELSE IF activeDuration * 2 < totalDuration
                           THEN Fraction(base.num * 9, base.den * 10)
                           ELSE base
         IN IF score.num > 100 * score.den THEN Fraction(100, 1)
            ELSE IF score.num < 0 THEN Fraction(0, 1)
            ELSE score

RECURSIVE foldActivities(_, _, _)
\* the loop of getSessionSummary over the activities from index i on
foldActivities(activities, acc, i) ==
  IF i > Len(activities) THEN acc
  ELSE
    LET activity == activities[i]
        duration == activity.duration
    IN foldActivities(activities,
         [activityBreakdown |->
            MapSet(acc.activityBreakdown, activity.type,
                   MapGet0(acc.activityBreakdown, activity.type) + duration),
          categoryBreakdown |->
            MapSet(acc.categoryBreakdown, activity.category,
                   MapGet0(acc.categoryBreakdown, activity.category) + duration),
          applicationDurations |->
            orderedAdd(acc.applicationDurations, activity.application, duration),
          activeDuration |->
            IF activity.type = "idle" THEN acc.activeDuration
            ELSE acc.activeDuration + duration,
          idleDuration |->
            IF activity.type = "idle" THEN acc.idleDuration + duration
            ELSE acc.idleDuration],
         i + 1)

\* getSessionSummary: the summary, or Null
getSessionSummary(sessions, sessionId) ==
  IF ~MapHas(sessions, sessionId) THEN Null
  ELSE
    LET session == sessions[sessionId]
        activities == session.activities
    IN IF Len(activities) = 0 THEN Null
       ELSE
         LET totalDuration == IF session.end_time # NoTime
                              THEN session.end_time - session.start_time ELSE 0
             acc == foldActivities(activities,
                      [activityBreakdown |-> EmptyMap, categoryBreakdown |-> EmptyMap,
                       applicationDurations |-> <<>>, activeDuration |-> 0,
                       idleDuration |-> 0], 1)
             ranked == SubSeq(sortByDuration(acc.applicationDurations), 1,
                              Min(TopApplications, Len(acc.applicationDurations)))
         IN [total_duration |-> totalDuration,
             active_duration |-> acc.activeDuration,
             idle_duration |-> acc.idleDuration,
             activity_breakdown |-> acc.activityBreakdown,
             category_breakdown |-> acc.categoryBreakdown,
             top_applications |->
               [k \in 1..Len(ranked) |->
                  [name |-> ranked[k].name, duration |-> ranked[k].duration,
                   activity_count |->
                     Len(SelectSeq(activities,
                                   LAMBDA a : a.application = ranked[k].name)),
                   category |-> getApplicationCategory(activities, ranked[k].name)]],
             productivity_score |->
               calculateProductivityScore(acc.categoryBreakdown, acc.activeDuration,
                                          totalDuration)]

(***************************************************************************)
(* ActivityParser.parseActivity                                            *)
(*   E is what the call reads and does not change: min_confidence,         *)
(*   thresholds, rules, categorization, now.  P is the state the pipeline  *)
(*   changes: qualityScores, categoryCache, ruleHits, sessions,            *)
(*   activityBuffer.  A call is one invocation of parseActivity; pc names  *)
(*   the await it is suspended at.  parseStart is the code from the entry  *)
(*   to the first await, parseStep the code from one await to the next.    *)
(*   Every promise awaited is already settled, so a continuation runs as   *)
(*   one microtask, in the order the calls were suspended.                 *)
(***************************************************************************)
QualityCap == 1000
ParserVersion == "0.1.0"
Rejected == [rejected |-> TRUE]

DefaultExtraction ==
  [enable_keyword_extraction |-> TRUE, enable_language_detection |-> TRUE,
   max_keywords |-> 10]

\* what the catch block of parseActivity makes of an error
catchResultMutant == Rejected

catchResult == Null

Finished(raw, result) ==
  [raw |-> raw, pc |-> "done", result |-> result, q |-> [num |-> 0, den |-> 1],
   type |-> "", content |-> Null, category |-> "", ruleResults |-> EmptyResult,
   parsed |-> Null, duration |-> 0]

recordScore(qualityScores, q) ==
  LET pushed == Append(qualityScores, q)
  IN IF Len(pushed) > QualityCap THEN Tail(pushed) ELSE pushed

qualityGateMutant(q, min_confidence) == FALSE

\* qualityScore < this.config.quality_thresholds.min_confidence
qualityGate(q, min_confidence) == scoreBelow(q, min_confidence)

\* the only element of a one-element set.  "x \in {e}" binds x to the value of
\* e, so an expression used several times is evaluated once.
Only(S) == CHOOSE x \in S : TRUE

\* steps 1 to 3, up to "await this.contentExtractor.extract(raw)"
parseStart(E, P, raw) ==
  Only({
    LET P1 == [P EXCEPT !.qualityScores = recordScore(@, q)]
    IN IF qualityGate(q, E.min_confidence)
       THEN [P |-> P1, call |-> Finished(raw, Null)]
       ELSE Only({
         IF activityType.threw \/ content.threw
         THEN [P |-> P1, call |-> Finished(raw, catchResult)]
         ELSE [P |-> P1,
               call |-> [Finished(raw, Null) EXCEPT
                           !.pc = "extract", !.q = q,
                           !.type = activityType.value,
                           !.content = content.value]]
         : activityType \in {determineActivityType(raw)},
           content \in {extract(raw, DefaultExtraction)}})
    : q \in {analyze(raw, E.thresholds, E.now)}})

\* step 6: the ParsedActivity built from the pieces
buildParsed(call) ==
  [id |-> call.raw.id, timestamp |-> call.raw.timestamp,
   device_id |-> call.raw.device_id, session_id |-> call.raw.session_id,
   type |-> IF call.ruleResults.type # "" THEN call.ruleResults.type
            ELSE call.type,
   category |-> IF call.ruleResults.category # "" THEN call.ruleResults.category
                ELSE call.category,
   application |-> IF call.raw.context.application # ""
                   THEN call.raw.context.application ELSE "Unknown",
   window_title |-> call.raw.context.window_title,
   \* { ...content, ...ruleResults.content }: the targets of the extract_content
   \* actions of the rule sets are not keys of the extractor's content
   content |-> [extracted |-> call.content, rules |-> call.ruleResults.content],
   metadata |-> [confidence |-> call.q, parser_version |-> ParserVersion,
                 rules_applied |-> call.ruleResults.applied_rules,
                 tags |-> call.ruleResults.tags],
   quality_score |-> call.q,
   duration |-> 0]

stepCategorizeMutant(E, P, call) ==
  Only({
    IF ruled.threw
    THEN Only({
           [P |-> [P EXCEPT !.categoryCache = cat.cache, !.ruleHits = ruled.ruleHits,
                            !.sessions = added.sessions,
                            !.activityBuffer = added.activityBuffer],
            call |-> Finished(call.raw, catchResult)]
           : added \in {addActivity(P.sessions, P.activityBuffer,
                                    buildParsed([call EXCEPT
                                                   !.category = cat.category]))}})
    ELSE [P |-> [P EXCEPT !.categoryCache = cat.cache, !.ruleHits = ruled.ruleHits],
          call |-> [call EXCEPT !.pc = "apply", !.category = cat.category,
                                !.ruleResults = ruled.result]]
    : cat \in {categorize(call.raw, call.type, E.categorization, P.categoryCache)},
      ruled \in {apply(E.rules, P.ruleHits, call.raw)}})

\* steps 4 and 5, up to "await this.ruleEngine.apply(raw)"
stepCategorize(E, P, call) ==
  Only({
    IF ruled.threw
    THEN [P |-> [P EXCEPT !.categoryCache = cat.cache, !.ruleHits = ruled.ruleHits],
          call |-> Finished(call.raw, catchResult)]
    ELSE [P |-> [P EXCEPT !.categoryCache = cat.cache, !.ruleHits = ruled.ruleHits],
          call |-> [call EXCEPT !.pc = "apply", !.category = cat.category,
                                !.ruleResults = ruled.result]]
    : cat \in {categorize(call.raw, call.type, E.categorization, P.categoryCache)},
      ruled \in {apply(E.rules, P.ruleHits, call.raw)}})

\* steps 6 and 7, up to "await this.sessionManager.calculateDuration(parsed)"
stepBuild(P, call) ==
  Only({
    [P |-> P,
     call |-> [call EXCEPT !.pc = "calculateDuration", !.parsed = parsed,
                           !.duration = calculateDuration(P.activityBuffer, parsed)]]
    : parsed \in {buildParsed(call)}})

\* "if (duration) parsed.duration = duration" and step 8, up to
\* "await this.sessionManager.addActivity(parsed)"
stepAddActivity(P, call) ==
  Only({
    Only({
      [P |-> [P EXCEPT !.sessions = added.sessions,
                       !.activityBuffer = added.activityBuffer],
       call |-> [call EXCEPT !.pc = "addActivity", !.parsed = parsed]]
      : added \in {addActivity(P.sessions, P.activityBuffer, parsed)}})
    : parsed \in {IF call.duration # 0
                  THEN [call.parsed EXCEPT !.duration = call.duration]
                  ELSE call.parsed}})

\* the code between two awaits, for the call suspended at call.pc
parseStep(E, P, call) ==
  CASE call.pc = "extract" -> stepCategorize(E, P, call)
    [] call.pc = "apply" -> stepBuild(P, call)
    [] call.pc = "calculateDuration" -> stepAddActivity(P, call)
    [] call.pc = "addActivity" ->
         [P |-> P, call |-> [call EXCEPT !.pc = "done", !.result = call.parsed]]
    [] OTHER -> [P |-> P, call |-> call]

RECURSIVE runCall(_, _, _)
\* the call run until it returns, nothing else running in between
runCall(E, P, call) ==
  IF call.pc = "done" THEN [P |-> P, call |-> call]
  ELSE Only({runCall(E, next.P, next.call) : next \in {parseStep(E, P, call)}})

\* await parseActivity(raw): [P, call], call.result the value returned
parseActivity(E, P, raw) ==
  Only({runCall(E, started.P, started.call) : started \in {parseStart(E, P, raw)}})

(***************************************************************************)
(* ActivityParser.batchParse                                               *)
(***************************************************************************)
RECURSIVE startAll(_, _, _, _, _)
\* activities.map(activity => this.parseActivity(activity)): every call runs
\* to its first await, in input order
startAll(E, P, activities, calls, i) ==
  IF i > Len(activities) THEN [P |-> P, calls |-> calls]
  ELSE Only({startAll(E, started.P, activities, Append(calls, started.call), i + 1)
             : started \in {parseStart(E, P, activities[i])}})

RECURSIVE stepAll(_, _, _, _)
\* one round of the microtask queue: each suspended call, in order, runs to its
\* next await
stepAll(E, P, calls, i) ==
  IF i > Len(calls) THEN [P |-> P, calls |-> calls]
  ELSE IF calls[i].pc = "done" THEN stepAll(E, P, calls, i + 1)
  ELSE Only({stepAll(E, next.P, [calls EXCEPT ![i] = next.call], i + 1)
             : next \in {parseStep(E, P, calls[i])}})

RECURSIVE drain(_, _, _)
drain(E, P, calls) ==
  IF \A i \in 1..Len(calls) : calls[i].pc = "done" THEN [P |-> P, calls |-> calls]
  ELSE Only({drain(E, next.P, next.calls) : next \in {stepAll(E, P, calls, 1)}})

\* await batchParse(activities): [P, rejected, result]; rejected when
\* Promise.all rejects, result the list returned otherwise
batchParse(E, P, activities) ==
  Only({
    LET rejected == \E i \in 1..Len(activities) : settled.calls[i].result = Rejected
    IN [P |-> settled.P,
        rejected |-> rejected,
        result |-> IF rejected THEN <<>>
                   ELSE SelectSeq([i \in 1..Len(activities) |->
                                     settled.calls[i].result],
                                  LAMBDA parsed : parsed # Null)]
    : settled \in {Only({drain(E, started.P, started.calls)
                         : started \in {startAll(E, P, activities, <<>>, 1)}})}})

RECURSIVE parseEach(_, _, _, _, _)
\* for (const raw of activities) results.push(await parseActivity(raw)), with
\* the null results removed
parseEach(E, P, activities, results, i) ==
  IF i > Len(activities) THEN [P |-> P, result |-> results]
  ELSE Only({parseEach(E, done.P, activities,
                       IF done.call.result = Null THEN results
                       ELSE Append(results, done.call.result), i + 1)
             : done \in {parseActivity(E, P, activities[i])}})

(***************************************************************************)
(* Rule sets: the default rules and the rules of the RuleEngine tests      *)
(***************************************************************************)
RuleCodeDetection ==
  Rule("code-detection", 100, TRUE,
       <<Cond("context.application", "matches", Str(ReIde))>>,
       <<Action("set_type", "coding"), Action("set_category", "productive"),
         Action("add_tag", "development")>>)
RuleBrowserYoutube ==
  Rule("browser-youtube", 90, TRUE,
       <<Cond("context.url", "contains", Str("youtube.com"))>>,
       <<Action("set_type", "browsing"), Action("set_category", "entertainment"),
         Action("add_tag", "video")>>)
RuleDocumentation ==
  Rule("documentation-writing", 80, TRUE,
       <<Cond("processed_text", "matches", Str(ReMarkdown))>>,
       <<Action("set_type", "documenting"), Action("set_category", "productive")>>)
RuleIdle ==
  Rule("idle-detection", 50, TRUE,
       <<Cond("data.idle_time", "greater_than", Num(300000))>>,
       <<Action("set_type", "idle"), Action("set_category", "break")>>)

getDefaultRules ==
  <<RuleCodeDetection, RuleBrowserYoutube, RuleDocumentation, RuleIdle>>

RuleTest1 ==
  Rule("test-rule-1", 100, TRUE,
       <<Cond("context.application", "contains", Str("code"))>>,
       <<Action("set_type", "coding"), Action("add_tag", "development")>>)
RuleTest2 ==
  Rule("test-rule-2", 90, TRUE,
       <<Cond("context.url", "matches", Str(ReGithub))>>,
       <<Action("set_category", "productive"), Action("add_tag", "github")>>)
RuleHighPriority ==
  Rule("high-priority", 200, TRUE,
       <<Cond("type", "equals", Str("keyboard"))>>,
       <<Action("set_type", "high-priority-type")>>)
RuleDisabled ==
  Rule("disabled-rule", 300, FALSE,
       <<Cond("type", "equals", Str("keyboard"))>>,
       <<Action("set_type", "should-not-apply")>>)
RuleEqualsTest ==
  Rule("equals-test", 100, TRUE,
       <<Cond("type", "equals", Str("keyboard"))>>,
       <<Action("add_tag", "equals-matched")>>)
\* a rule whose pattern is not a regular expression
RuleUnclosed ==
  Rule("unclosed-group", 150, TRUE,
       <<Cond("processed_text", "matches", Str(ReUnclosed))>>,
       <<Action("add_tag", "unclosed")>>)

\* a rule whose extract_content action holds a pattern that is not a regular
\* expression
RuleBadExtract ==
  Rule("bad-extract", 80, TRUE,
       <<Cond("type", "equals", Str("keyboard"))>>,
       <<ExtractAction("processed_text", ReUnclosed, "group"),
         Action("add_tag", "extracted")>>)
\* a rule with an empty condition list
RuleNoConditions ==
  Rule("no-conditions", 40, TRUE, <<>>, <<Action("add_tag", "unconditional")>>)

\* the rules a RuleEngine is given in SpecRule
RulePool == {RuleEqualsTest, RuleTest2, RuleDocumentation, RuleIdle, RuleDisabled}

AllRules ==
  RulePool \cup {RuleCodeDetection, RuleBrowserYoutube, RuleTest1, RuleHighPriority,
                 RuleUnclosed, RuleBadExtract, RuleNoConditions}

RuleIds == {r.id : r \in AllRules}

\* the rule lists of at most MaxRules distinct rules of the pool, in any order
RuleLists ==
  {list \in UNION {[1..n -> RulePool] : n \in 0..MaxRules} :
     \A i, j \in 1..Len(list) : i # j => list[i] # list[j]}

\* the rules a RuleEngine is given in SpecEngine: well-formed rules next to
\* rules with an invalid pattern and a rule without conditions
EnginePool ==
  {RuleEqualsTest, RuleUnclosed, RuleBadExtract, RuleNoConditions, RuleIdle,
   RuleDisabled}

\* the lists of at most MaxRules rules of that pool, supplied in ascending
\* priority
EngineLists ==
  {list \in UNION {[1..n -> EnginePool] : n \in 0..MaxRules} :
     \A i, j \in 1..Len(list) : i < j => list[i].priority < list[j].priority}

\* an empty ruleHits map
NoHits == [id \in RuleIds |-> 0]

(***************************************************************************)
(* Sample records                                                          *)
(***************************************************************************)
\* an instant more than a day after the origin of the clock
T0 == 25 * 60 * 60 * 1000

\* matches every enabled rule of the pool
KAll == Raw("k1", T0, "d1", "s1", "keyboard", IdleData, TxtDoc,
            Ctx("vscode", TitleJs, UrlGithub))
\* matches test-rule-2 only
WGit == Raw("w1", T0, "d1", "s1", "window", EmptyData, "",
            Ctx("chrome", TitlePlain, UrlGithub))
\* matches the rules on type keyboard only
KPlain == Raw("k2", T0, "d1", "s1", "keyboard", EmptyData, TxtHello,
              Ctx("notepad", TitlePlain, ""))
\* matches no rule
MNone == Raw("m1", T0, "d1", "s1", "mouse", ClickData, "",
             Ctx("notepad", TitlePlain, ""))

RuleRecords == {KAll, WGit, KPlain, MNone}

(***************************************************************************)
(* State                                                                   *)
(*   config          ActivityParser.config.quality_thresholds              *)
(*   thresholds      QualityAnalyzer.thresholds                            *)
(*   qualityScores   QualityAnalyzer.qualityScores                         *)
(*   categorization  ActivityCategorizer.config                            *)
(*   categoryCache   ActivityCategorizer.categoryCache                     *)
(*   rules, ruleHits RuleEngine.rules, RuleEngine.ruleHits                 *)
(*   sessions, activityBuffer   the maps of the SessionManager             *)
(*   now             the clock read by Date.now()                          *)
(*   ops             number of operations called so far                    *)
(*   supplied        the rule list as the caller last handed it over       *)
(*   last            the last operation: its arguments, the value it       *)
(*                   returned and the state it started from                *)
(*   parseLog        the parseActivity calls since the configuration last  *)
(*                   changed: <<raw, value returned>>                      *)
(*   fired           per rule id, the number of RuleEngine.apply calls     *)
(*                   made directly on the engine that pushed the id to     *)
(*                   applied_rules                                         *)
(*   inflight        the parseActivity call suspended at an await, with    *)
(*                   what a call run without interruption from the state   *)
(*                   it started in returns; Null when no call is suspended *)
(***************************************************************************)
VARIABLES config, thresholds, qualityScores, categorization, categoryCache,
          rules, ruleHits, sessions, activityBuffer, now, ops, supplied, last,
          parseLog, fired, inflight

vars == <<config, thresholds, qualityScores, categorization, categoryCache,
          rules, ruleHits, sessions, activityBuffer, now, ops, supplied, last,
          parseLog, fired, inflight>>

quality_thresholds == [min_confidence |-> Tenth(5), min_text_length |-> 3]

defaultCategorization ==
  [productive_apps |->
     {"vscode", "visual studio", "intellij", "sublime", "atom", "vim", "emacs",
      "excel", "word", "powerpoint", "notion", "obsidian", "figma", "sketch",
      "photoshop", "illustrator", "terminal", "iterm", "powershell"},
   distracting_apps |->
     {"facebook", "twitter", "instagram", "tiktok", "reddit", "youtube",
      "netflix", "twitch", "steam", "epic games"},
   communication_apps |->
     {"slack", "teams", "discord", "telegram", "whatsapp", "skype", "zoom",
      "meet", "outlook", "gmail", "mail", "messages"},
   learning_apps |->
     {"coursera", "udemy", "khan academy", "duolingo", "anki", "kindle",
      "books", "reader", "calibre"}]

\* new ActivityParser({...defaultParserConfig, rules: list})
Constructed(list) ==
  /\ config = quality_thresholds
  /\ thresholds = quality_thresholds
  /\ qualityScores = <<>>
  /\ categorization = defaultCategorization
  /\ categoryCache = initializeCache
  /\ rules = sortRulesByPriority(list)
  /\ ruleHits = NoHits
  /\ sessions = EmptyMap
  /\ activityBuffer = EmptyMap
  /\ now = T0 + 10 * 60 * 1000
  /\ ops = 0
  /\ supplied = list
  /\ last = [op |-> "constructor"]
  /\ parseLog = {}
  /\ fired = NoHits
  /\ inflight = Null

(***************************************************************************)
(* SpecRule: a RuleEngine on its own                                       *)
(***************************************************************************)
InitRule == \E list \in RuleLists : Constructed(list)

\* await engine.apply(activity)
Apply(activity) ==
  /\ ops < MaxRuleOps
  /\ LET r == apply(rules, ruleHits, activity)
     IN /\ ruleHits' = r.ruleHits
        /\ last' = [op |-> "apply", activity |-> activity, threw |-> r.threw,
                    result |-> r.result, hitsBefore |-> ruleHits]
        /\ fired' = [id \in RuleIds |->
                       IF \E k \in 1..Len(r.result.applied_rules) :
                            r.result.applied_rules[k] = id
                       THEN fired[id] + 1 ELSE fired[id]]
  /\ ops' = ops + 1
  /\ UNCHANGED <<config, thresholds, qualityScores, categorization, categoryCache,
                 rules, sessions, activityBuffer, now, supplied, parseLog, inflight>>

\* engine.updateRules(list)
UpdateRules(list) ==
  /\ ops < MaxRuleOps
  /\ rules' = sortRulesByPriority(list)
  /\ supplied' = list
  /\ last' = [op |-> "updateRules"]
  /\ ops' = ops + 1
  /\ UNCHANGED <<config, thresholds, qualityScores, categorization, categoryCache,
                 ruleHits, sessions, activityBuffer, now, parseLog, fired, inflight>>

NextRule ==
  \/ \E activity \in RuleRecords : Apply(activity)
  \/ \E list \in RuleLists : UpdateRules(list)

SpecRule == InitRule /\ [][NextRule]_vars

(***************************************************************************)
(* Properties of the RuleEngine                                            *)
(***************************************************************************)
\* the rule has a set_type action, a set_category action
SetsType(rule) == \E k \in 1..Len(rule.actions) : rule.actions[k].type = "set_type"
SetsCategory(rule) ==
  \E k \in 1..Len(rule.actions) : rule.actions[k].type = "set_category"

\* the value of the rule's set_type action
TypeSetBy(rule) ==
  rule.actions[CHOOSE k \in 1..Len(rule.actions) :
                 rule.actions[k].type = "set_type"].value

\* the rule is enabled and all its conditions hold of the record
Matching(rule, activity) ==
  rule.enabled /\ evaluateConditions(rule.conditions, activity) = Returned(TRUE)

PriorityOf(id) == (CHOOSE r \in AllRules : r.id = id).priority

\* the least element of a set of indices
FirstOf(S) == CHOOSE i \in S : \A j \in S : i <= j

\* the last operation was an apply that returned a result
Applied == last.op = "apply" /\ ~last.threw

\* C3: once an enabled rule that sets the type or the category has matched a
\* record, no rule after it in the priority order has its actions applied (the
\* result is the one the rules up to it give), its id recorded in
\* applied_rules, or its hit counter incremented for that record.
C3_Exclusivity ==
  Applied =>
    LET exclusive == {i \in 1..Len(rules) :
                        /\ Matching(rules[i], last.activity)
                        /\ (SetsType(rules[i]) \/ SetsCategory(rules[i]))}
    IN exclusive # {} =>
         LET i == FirstOf(exclusive)
             applied == last.result.applied_rules
         IN /\ applied # <<>> /\ applied[Len(applied)] = rules[i].id
            /\ ruleHits[rules[i].id] = last.hitsBefore[rules[i].id] + 1
            /\ \A j \in (i + 1)..Len(rules) :
                 /\ \A k \in 1..Len(applied) : applied[k] # rules[j].id
                 /\ ruleHits[rules[j].id] = last.hitsBefore[rules[j].id]
                 /\ \A k \in 1..Len(rules[j].actions) :
                      /\ rules[j].actions[k].type = "add_tag"
                         => \A t \in 1..Len(last.result.tags) :
                              last.result.tags[t] # rules[j].actions[k].value
                      /\ rules[j].actions[k].type = "set_type"
                         => last.result.type # rules[j].actions[k].value

\* C3 witness: a rule without set_type or set_category was applied, then a
\* rule that sets the category, and a later rule that matches the record as
\* well was left out
C3_Witness ==
  /\ Applied
  /\ Len(last.result.applied_rules) = 2
  /\ \E i, j \in 1..Len(rules) :
       /\ i < j
       /\ Matching(rules[i], last.activity) /\ SetsCategory(rules[i])
       /\ Matching(rules[j], last.activity)
       /\ last.result.applied_rules[2] = rules[i].id

\* C4 (first half): whatever order the rules were supplied in, the engine
\* holds them by non-increasing priority, and the ids in applied_rules appear
\* in non-increasing priority order.
PriorityOrder ==
  /\ \A i, j \in 1..Len(rules) : i < j => rules[i].priority >= rules[j].priority
  /\ Applied =>
       \A i, j \in 1..Len(last.result.applied_rules) :
         i < j => PriorityOf(last.result.applied_rules[i])
                  >= PriorityOf(last.result.applied_rules[j])

\* the matching rules that set the type, by their place in the priority order
TypeSetters(activity) ==
  {i \in 1..Len(rules) : Matching(rules[i], activity) /\ SetsType(rules[i])}

\* C4 as stated: evaluation is in descending priority, and when two matching
\* rules both set the type, the result's type is the one set by the
\* higher-priority rule.
C4_Stated ==
  /\ PriorityOrder
  /\ (Applied /\ Cardinality(TypeSetters(last.activity)) >= 2)
     => last.result.type = TypeSetBy(rules[FirstOf(TypeSetters(last.activity))])

\* C4 amended: evaluation is in descending priority; when two matching rules
\* both set the type, the result's type is never the lower-priority rule's: it
\* is the one set by the higher-priority rule, unless a matching rule that
\* sets the category and not the type precedes both in the priority order, in
\* which case evaluation ended there and the result has no type.
C4_Priority ==
  /\ PriorityOrder
  /\ (Applied /\ Cardinality(TypeSetters(last.activity)) >= 2)
     => LET first == FirstOf(TypeSetters(last.activity))
        IN IF \E k \in 1..(first - 1) :
                Matching(rules[k], last.activity) /\ SetsCategory(rules[k])
           THEN last.result.type = ""
           ELSE last.result.type = TypeSetBy(rules[first])

\* C4 witness: the rules were supplied in ascending priority, two matching
\* rules set the type, and the result has the type of the higher-priority one
C4_Witness ==
  /\ Applied
  /\ Len(supplied) >= 2
  /\ \A i, j \in 1..Len(supplied) : i < j => supplied[i].priority < supplied[j].priority
  /\ Cardinality(TypeSetters(last.activity)) >= 2
  /\ last.result.type = TypeSetBy(rules[FirstOf(TypeSetters(last.activity))])
  /\ Len(last.result.applied_rules) = 2

(***************************************************************************)
(* SpecEngine: a RuleEngine given malformed rules next to well-formed ones *)
(***************************************************************************)
InitEngine == \E list \in EngineLists : Constructed(list)

NextEngine ==
  \/ \E activity \in RuleRecords : Apply(activity)
  \/ \E list \in EngineLists : UpdateRules(list)

SpecEngine == InitEngine /\ [][NextEngine]_vars

\* every pattern the rule holds compiles
WellFormed(rule) ==
  /\ \A k \in 1..Len(rule.conditions) :
       rule.conditions[k].operator = "matches"
       => regExpCompiles(rule.conditions[k].value.s)
  /\ \A k \in 1..Len(rule.actions) :
       rule.actions[k].type = "extract_content"
       => regExpCompiles(rule.actions[k].pattern)

\* the id is one of applied_rules of the last apply
InApplied(id) ==
  \E k \in 1..Len(last.result.applied_rules) : last.result.applied_rules[k] = id

\* C11 as stated: a rule with an invalid regular expression in a 'matches'
\* condition or an extract_content action does not halt the engine; apply
\* returns a result, and the well-formed rules that match the record are
\* evaluated and applied as far as no exclusive rule before them has matched.
C11_Stated ==
  last.op = "apply" =>
    /\ ~last.threw
    /\ \A i \in 1..Len(rules) :
         (/\ WellFormed(rules[i]) /\ Matching(rules[i], last.activity)
          /\ \A j \in 1..(i - 1) :
               ~(Matching(rules[j], last.activity) /\ isExclusiveRule(rules[j])))
         => InApplied(rules[i].id)

\* C18: the counter getHitRate reports for a rule id is the number of apply
\* calls so far in which the rule matched and its id was pushed to
\* applied_rules; no counter decreases, a rule that does not match (or is
\* disabled) is not counted, and a rule that never fired has no entry.
C18_HitCounter ==
  \A hitRate \in {getHitRate(ruleHits)} :
    /\ \A id \in RuleIds :
         IF fired[id] > 0 THEN MapHas(hitRate, id) /\ hitRate[id] = fired[id]
         ELSE ~MapHas(hitRate, id)
    /\ last.op = "apply" =>
         /\ \A id \in RuleIds : ruleHits[id] >= last.hitsBefore[id]
         /\ \A i \in 1..Len(rules) :
              ~Matching(rules[i], last.activity)
              => ruleHits[rules[i].id] = last.hitsBefore[rules[i].id]

\* C18 witness: an exclusive rule has fired in two apply calls, while a
\* disabled rule before it and a matching rule after it have no count
C18_Witness ==
  /\ last.op = "apply" /\ ~last.threw
  /\ \E i, j, k \in 1..Len(rules) :
       /\ i < j /\ j < k
       /\ ~rules[i].enabled /\ isExclusiveRule(rules[j])
       /\ Matching(rules[k], last.activity)
       /\ getHitRate(ruleHits) = [id \in {rules[j].id} |-> 2]

\* C20 as stated: a rule with an empty condition list never matches; apply
\* applies none of its actions, does not add its id to applied_rules and
\* does not increment its hit counter.
C20_Stated ==
  last.op = "apply" =>
    \A i \in 1..Len(rules) :
      rules[i].conditions = <<>>
      => /\ ~InApplied(rules[i].id)
         /\ ruleHits[rules[i].id] = last.hitsBefore[rules[i].id]
         /\ \A k \in 1..Len(rules[i].actions) :
              rules[i].actions[k].type = "add_tag"
              => \A t \in 1..Len(last.result.tags) :
                   last.result.tags[t] # rules[i].actions[k].value

(***************************************************************************)
(* SpecCategorizer: an ActivityCategorizer on its own                      *)
(***************************************************************************)
\* application names: two the cache is pre-populated with, two it is not
CatApps == {"chrome", "vscode", "notepad", "Brave"}
CatUrls == {"", UrlGithub, UrlYoutube}
CatTypes == {"browsing", "typing", "coding"}

CatRecord(app, url) ==
  Raw("x", T0, "d1", "s1", "window", EmptyData, "", Ctx(app, TitlePlain, url))

\* the arguments of ActivityCategorizer.updateConfig
CatUpdates ==
  { [productive_apps |-> {"notepad"}],
    [productive_apps |-> {"Brave"}, distracting_apps |-> {"vscode"}],
    [distracting_apps |-> {"notepad", "Brave"}] }

InitCategorizer == Constructed(<<>>)

\* categorizer.categorize(activity, type)
Categorize(activity, type) ==
  /\ ops < MaxCatOps
  /\ \E c \in {categorize(activity, type, categorization, categoryCache)} :
       /\ categoryCache' = c.cache
       /\ last' = [op |-> "categorize", activity |-> activity, type |-> type,
                   category |-> c.category,
                   afterUpdate |-> (last.op = "updateConfig")]
  /\ ops' = ops + 1
  /\ UNCHANGED <<config, thresholds, qualityScores, categorization, rules, ruleHits,
                 sessions, activityBuffer, now, supplied, parseLog, fired, inflight>>

\* categorizer.updateConfig(u)
UpdateCategorization(u) ==
  /\ ops < MaxCatOps
  /\ categorization' = Spread(categorization, u)
  /\ categoryCache' = initializeCache
  /\ last' = [op |-> "updateConfig"]
  /\ ops' = ops + 1
  /\ UNCHANGED <<config, thresholds, qualityScores, rules, ruleHits, sessions,
                 activityBuffer, now, supplied, parseLog, fired, inflight>>

NextCategorizer ==
  \/ \E app \in CatApps, url \in CatUrls, type \in CatTypes :
       Categorize(CatRecord(app, url), type)
  \/ \E u \in CatUpdates : UpdateCategorization(u)

SpecCategorizer == InitCategorizer /\ [][NextCategorizer]_vars

\* the category the three sources give when none is cached: the one implied by
\* the url if there is one, else by the application lists, else by the type
ByPrecedence(activity, type) ==
  categorize(activity, type, categorization, EmptyMap).category

\* C12 as stated: the category returned by categorize is the URL-domain
\* category when the url matches a domain set, otherwise the application-list
\* category when the name matches a configured list, otherwise the category
\* implied by the type, in any cache state; a record of application chrome
\* with a github.com url is categorized productive.
C12_Stated ==
  last.op = "categorize" =>
    /\ last.category = ByPrecedence(last.activity, last.type)
    /\ (last.activity.context.application = "chrome"
        /\ last.activity.context.url = UrlGithub) => last.category = "productive"

\* C13 as stated: the first categorize call after updateConfig, for any
\* application name one of the new lists matches (and no url), returns the
\* category of the first matching list in the order productive, distracting,
\* communication, learning.
C13_Stated ==
  (/\ last.op = "categorize" /\ last.afterUpdate
   /\ last.activity.context.url = ""
   /\ categorizeByApplication(toLowerCase(last.activity.context.application),
                              categorization) # "")
  => last.category =
       categorizeByApplication(toLowerCase(last.activity.context.application),
                               categorization)

(***************************************************************************)
(* Spec: an ActivityParser, its operations called one after another        *)
(***************************************************************************)
\* keyboard text in an application no list knows
RA == Raw("a", T0, "d1", "s1", "keyboard", EmptyData, TxtHello,
          Ctx("notepad", TitlePlain, ""))
\* a browser window, one minute later in the same session
RB == Raw("b", T0 + 60 * 1000, "d1", "s1", "window", EmptyData, "",
          Ctx("chrome", TitlePlain, UrlGithub))
\* markdown typed in an IDE, in another session
RDoc == Raw("c", T0 + 2 * 60 * 1000, "d1", "s2", "keyboard", EmptyData, TxtDoc,
            Ctx("vscode", TitleJs, ""))
\* two letters of gibberish with no timestamp, payload or context
RLow == Raw("low", 0, "d1", "s1", "keyboard", NoData, TxtXz, NoContext)
\* a mouse record with no payload
RMouse == Raw("m", T0 + 3 * 60 * 1000, "d1", "s1", "mouse", NoData, "",
              Ctx("notepad", TitlePlain, ""))
\* a browser window whose url is not a URL
RBadUrl == Raw("u", T0 + 4 * 60 * 1000, "d1", "s1", "window", EmptyData, "",
               Ctx("chrome", TitlePlain, UrlBad))

ParserRecords == {RA, RB, RDoc, RLow, RMouse, RBadUrl}

\* the arguments of updateConfig: has names the keys the argument carries
ConfigRules ==
  [has |-> {"rules"}, rules |-> getDefaultRules \o <<RuleUnclosed>>,
   categorization |-> EmptyMap, quality_thresholds |-> quality_thresholds]
ConfigThresholds ==
  [has |-> {"quality_thresholds"}, rules |-> <<>>, categorization |-> EmptyMap,
   quality_thresholds |-> [min_confidence |-> Tenth(4), min_text_length |-> 3]]
ConfigCategorization ==
  [has |-> {"categorization"}, rules |-> <<>>,
   categorization |-> [productive_apps |-> {"notepad"}],
   quality_thresholds |-> quality_thresholds]

ConfigUpdates == {ConfigRules, ConfigThresholds, ConfigCategorization}

\* what parseActivity reads and what it changes
Environment ==
  [min_confidence |-> config.min_confidence, thresholds |-> thresholds,
   rules |-> rules, categorization |-> categorization, now |-> now]
Pipeline ==
  [qualityScores |-> qualityScores, categoryCache |-> categoryCache,
   ruleHits |-> ruleHits, sessions |-> sessions, activityBuffer |-> activityBuffer]

SetPipeline(P) ==
  /\ qualityScores' = P.qualityScores
  /\ categoryCache' = P.categoryCache
  /\ ruleHits' = P.ruleHits
  /\ sessions' = P.sessions
  /\ activityBuffer' = P.activityBuffer

Init == Constructed(getDefaultRules)

\* await parser.parseActivity(raw)
ParseRecord(raw) ==
  \E done \in {parseActivity(Environment, Pipeline, raw)} :
    /\ SetPipeline(done.P)
    /\ last' = [op |-> "parseActivity", raw |-> raw, result |-> done.call.result,
                before |-> Pipeline]
    /\ parseLog' = parseLog \cup {<<raw, done.call.result>>}
    /\ ops' = ops + 1
    /\ UNCHANGED <<config, thresholds, categorization, rules, now, supplied,
                   fired, inflight>>

ParseActivity(raw) == ops < MaxOps /\ ParseRecord(raw)

\* parser.updateConfig(u)
UpdateConfig(u) ==
  /\ ops < MaxOps
  /\ config' = IF "quality_thresholds" \in u.has THEN u.quality_thresholds ELSE config
  /\ IF "rules" \in u.has
     THEN rules' = sortRulesByPriority(u.rules) /\ supplied' = u.rules
     ELSE UNCHANGED <<rules, supplied>>
  /\ IF "categorization" \in u.has
     THEN /\ categorization' = Spread(categorization, u.categorization)
          /\ categoryCache' = initializeCache
     ELSE UNCHANGED <<categorization, categoryCache>>
  /\ thresholds' = IF "quality_thresholds" \in u.has
                   THEN Spread(thresholds, u.quality_thresholds) ELSE thresholds
  /\ last' = [op |-> "updateConfig"]
  /\ parseLog' = {}
  /\ ops' = ops + 1
  /\ UNCHANGED <<qualityScores, ruleHits, sessions, activityBuffer, now, fired,
                 inflight>>

\* a day passes
Tick ==
  /\ ops < MaxOps
  /\ now' = now + DayMs
  /\ last' = [op |-> "tick"]
  /\ ops' = ops + 1
  /\ UNCHANGED <<config, thresholds, qualityScores, categorization, categoryCache,
                 rules, ruleHits, sessions, activityBuffer, supplied, parseLog,
                 fired, inflight>>

Next ==
  \/ \E raw \in ParserRecords : ParseActivity(raw)
  \/ \E u \in ConfigUpdates : UpdateConfig(u)
  \/ Tick

Spec == Init /\ [][Next]_vars

(***************************************************************************)
(* SpecInflight: an ActivityParser whose caller does not await a           *)
(* parseActivity call before it calls updateConfig:                        *)
(*   const p = parser.parseActivity(raw); parser.updateConfig(u); await p  *)
(***************************************************************************)
InitInflight == Constructed(getDefaultRules)

\* the call returned: what it returned, what an uninterrupted call from the
\* state it started in returns, and the configuration it started under
Returns(flight, result) ==
  [op |-> "returned", raw |-> flight.call.raw, result |-> result,
   uninterrupted |-> flight.uninterrupted, started |-> flight.started]

\* parser.parseActivity(raw), up to its first await
StartParse(raw) ==
  /\ ops < MaxOps
  /\ inflight = Null
  /\ \E started \in {parseStart(Environment, Pipeline, raw)} :
     \E flight \in {[call |-> started.call,
                     uninterrupted |->
                       parseActivity(Environment, Pipeline, raw).call.result,
                     started |-> Environment]} :
       /\ SetPipeline(started.P)
       /\ IF started.call.pc = "done"
          THEN inflight' = Null /\ last' = Returns(flight, started.call.result)
          ELSE inflight' = flight /\ last' = [op |-> "started"]
  /\ ops' = ops + 1
  /\ UNCHANGED <<config, thresholds, categorization, rules, now, supplied, parseLog,
                 fired>>

\* the suspended call runs from the await it is at to the next one
ResumeParse ==
  /\ inflight # Null
  /\ \E next \in {parseStep(Environment, Pipeline, inflight.call)} :
       /\ SetPipeline(next.P)
       /\ IF next.call.pc = "done"
          THEN inflight' = Null /\ last' = Returns(inflight, next.call.result)
          ELSE inflight' = [inflight EXCEPT !.call = next.call] /\ UNCHANGED last
  /\ UNCHANGED <<config, thresholds, categorization, rules, now, ops, supplied,
                 parseLog, fired>>

NextInflight ==
  \/ \E raw \in ParserRecords : StartParse(raw)
  \/ ResumeParse
  \/ \E u \in ConfigUpdates : UpdateConfig(u)

SpecInflight == InitInflight /\ [][NextInflight]_vars

\* C14 as stated: a parseActivity call that started before an updateConfig
\* call is classified entirely with the configuration in force when it
\* started (it returns what it returns when nothing interrupts it), and a call
\* started after the update uses the new configuration only.
C14_Stated ==
  last.op = "returned" => last.result = last.uninterrupted

(***************************************************************************)
(* Properties of parseActivity                                             *)
(***************************************************************************)
\* the last operation was parseActivity
Parsed == last.op = "parseActivity"

\* the quality score of the record is strictly below the configured
\* min_confidence (no operation that parses changes the configuration or the
\* clock)
Below(raw) == scoreBelow(analyze(raw, thresholds, now), config.min_confidence)

\* a step of the pipeline after the quality gate raises an error for the
\* record: the type of a mouse record with no payload, the application
\* actions of a browser window with an unparseable url, a rule with an
\* invalid regular expression
RaisesOn(raw) ==
  \/ raw.type = "mouse" /\ ~raw.data.present
  \/ extractActions(raw).threw
  \/ apply(rules, NoHits, raw).threw

BelowThreshold == Below(last.raw)

Raises == RaisesOn(last.raw)

\* C1 as stated: parseActivity returns null if and only if the quality score
\* of the record is strictly below the configured min_confidence.
C1_Stated == Parsed => (last.result = Null <=> BelowThreshold)

\* C1 amended: parseActivity returns null if and only if the quality score of
\* the record is strictly below the configured min_confidence or a later step
\* of the pipeline raises an error; no below-threshold record yields a
\* ParsedActivity, and an accepted-quality record yields null only on an error.
C1_NullResult ==
  Parsed => /\ last.result = Null <=> (BelowThreshold \/ Raises)
            /\ BelowThreshold => last.result = Null

\* C1 witness: an accepted-quality record yields null because a step raised
\* an error, after a below-threshold record was rejected
C1_Witness ==
  /\ Parsed /\ ~BelowThreshold /\ Raises /\ last.result = Null
  /\ <<RLow, Null>> \in parseLog

\* C2: after parseActivity returns null for a below-threshold record, the set
\* of sessions, every session's activity list, start_time and end_time, and
\* every duration buffer are what they were before the call.
C2_RejectedNotCounted ==
  (Parsed /\ BelowThreshold)
  => /\ last.result = Null
     /\ sessions = last.before.sessions
     /\ activityBuffer = last.before.activityBuffer

\* C2 witness: a below-threshold record was rejected while its session
\* already held an activity
C2_Witness ==
  /\ Parsed /\ BelowThreshold /\ last.result = Null
  /\ MapHas(sessions, last.raw.session_id)
  /\ Len(sessions[last.raw.session_id].activities) >= 1
  /\ MapHas(activityBuffer, last.raw.session_id)

\* the fields of a ParsedActivity that C6 names
Outcome(parsed) ==
  [type |-> parsed.type, category |-> parsed.category, duration |-> parsed.duration,
   content |-> parsed.content, tags |-> parsed.metadata.tags,
   applied_rules |-> parsed.metadata.rules_applied]

\* C6 as stated: with an unchanged rule set and configuration, two calls of
\* parseActivity on the same raw record that both return a ParsedActivity
\* return the same type, category, duration, content, tags and applied rules,
\* whatever was parsed before or between them.
C6_Stated ==
  \A e1, e2 \in parseLog :
    (e1[1] = e2[1] /\ e1[2] # Null /\ e2[2] # Null)
    => Outcome(e1[2]) = Outcome(e2[2])

\* the activity the session of the last call held last before the call
Previous ==
  LET buffer == last.before.activityBuffer[last.raw.session_id]
  IN buffer[Len(buffer)]

\* C7 as stated: when parseActivity accepts a record whose session already
\* holds an earlier accepted activity and the gap between the two timestamps
\* is strictly positive and strictly below MAX_IDLE_TIME, the ParsedActivity
\* returned carries that gap as its duration and the session summary accounts
\* for it (its productivity_score is above 0).
C7_Stated ==
  (/\ Parsed /\ last.result # Null
   /\ MapHas(last.before.activityBuffer, last.raw.session_id)
   /\ last.raw.timestamp - Previous.timestamp > 0
   /\ last.raw.timestamp - Previous.timestamp < MAX_IDLE_TIME)
  => /\ last.result.duration = last.raw.timestamp - Previous.timestamp
     /\ getSessionSummary(sessions, last.raw.session_id).productivity_score.num > 0

(***************************************************************************)
(* SpecBatch: an ActivityParser that has parsed some records one by one    *)
(* and is then handed a list by batchParse                                 *)
(***************************************************************************)
BatchRecords == {RA, RB, RLow, RMouse, RBadUrl}

\* the record lists of at most MaxBatch records, repetitions allowed
BatchLists == UNION {[1..n -> BatchRecords] : n \in 0..MaxBatch}

InitBatch ==
  \E list \in {getDefaultRules, getDefaultRules \o <<RuleUnclosed>>} : Constructed(list)

ParseBefore(raw) == ops < MaxPre /\ last.op # "batchParse" /\ ParseRecord(raw)

\* await parser.batchParse(activities)
BatchParse(activities) ==
  /\ last.op # "batchParse"
  /\ \E done \in {batchParse(Environment, Pipeline, activities)} :
       /\ SetPipeline(done.P)
       /\ last' = [op |-> "batchParse", activities |-> activities,
                   rejected |-> done.rejected, result |-> done.result,
                   before |-> Pipeline]
  /\ ops' = ops + 1
  /\ UNCHANGED <<config, thresholds, categorization, rules, now, supplied, parseLog,
                 fired, inflight>>

NextBatch ==
  \/ \E raw \in BatchRecords : ParseBefore(raw)
  \/ \E activities \in BatchLists : BatchParse(activities)

SpecBatch == InitBatch /\ [][NextBatch]_vars

\* the last operation was batchParse
Batched == last.op = "batchParse"

\* C5 as stated: batchParse returns the same sequence of ParsedActivity values,
\* durations included, as parseActivity called on each record one after
\* another in input order from the same starting state, nulls removed.
C5_Stated ==
  Batched =>
    /\ ~last.rejected
    /\ last.result = parseEach(Environment, last.before, last.activities,
                               <<>>, 1).result

\* the records of a list that pass the quality gate and raise no error
Survivors(activities) ==
  SelectSeq(activities, LAMBDA raw : ~Below(raw) /\ ~RaisesOn(raw))

\* C10: an error raised while one record is processed makes parseActivity
\* return null for that record; batchParse never rejects and returns, in input
\* order, the ParsedActivity of every record of the list that passes the
\* quality gate and raises no error.
C10_FailureIsolation ==
  /\ (Parsed /\ Raises) => last.result = Null
  /\ Batched =>
       /\ ~last.rejected
       /\ Len(last.result) = Len(Survivors(last.activities))
       /\ \A k \in 1..Len(Survivors(last.activities)) :
            last.result[k].id = Survivors(last.activities)[k].id

\* C10 witness: a list in which a record that raises an error is followed by
\* a record that is parsed, under a rule set with an invalid regular
\* expression
C10_Witness ==
  /\ Batched
  /\ \E i \in 1..Len(rules) : rules[i] = RuleUnclosed
  /\ \E i, j \in 1..Len(last.activities) :
       /\ i < j
       /\ ~Below(last.activities[i]) /\ RaisesOn(last.activities[i])
       /\ ~Below(last.activities[j]) /\ ~RaisesOn(last.activities[j])
  /\ Len(last.result) >= 1

(***************************************************************************)
(* SpecSession: a SessionManager on its own, handed ParsedActivity values  *)
(***************************************************************************)
\* application names, in the order a session first meets them
Apps == <<"vscode", "chrome", "slack", "notepad", "figma", "zoom", "excel", "word">>

ActivityIds == <<"p1", "p2", "p3", "p4", "p5", "p6", "p7", "p8">>

\* type, category and duration (0: the field is absent) of the activities added
Kinds ==
  {[type |-> "coding", category |-> "productive", duration |-> 1000],
   [type |-> "idle", category |-> "break", duration |-> 2000],
   [type |-> "typing", category |-> "neutral", duration |-> 0]}

\* the applications the session s1 has met
AppsMet ==
  IF MapHas(sessions, "s1")
  THEN {sessions["s1"].activities[i].application :
          i \in 1..Len(sessions["s1"].activities)}
  ELSE {}

\* the ParsedActivity values the next addActivity may be handed: one of an
\* application the session has not met, of each kind, and one more browsing
\* second of the application it met first
NextActivities ==
  LET id == ActivityIds[ops + 1]
      timestamp == T0 + ops * 1000
      Sample(type, category, application, duration) ==
        [id |-> id, timestamp |-> timestamp, device_id |-> "d1",
         session_id |-> "s1", type |-> type, category |-> category,
         application |-> application, duration |-> duration]
  IN {Sample(k.type, k.category, Apps[Cardinality(AppsMet) + 1], k.duration) :
        k \in Kinds}
     \cup (IF AppsMet = {} THEN {}
           ELSE {Sample("browsing", "distracting", Apps[1], 1000)})

InitSession == Constructed(<<>>)

\* await sessionManager.addActivity(activity)
AddActivity(activity) ==
  /\ ops < MaxAdds
  /\ ops < Len(ActivityIds)
  /\ \E added \in {addActivity(sessions, activityBuffer, activity)} :
       /\ sessions' = added.sessions
       /\ activityBuffer' = added.activityBuffer
  /\ last' = [op |-> "addActivity", activity |-> activity]
  /\ ops' = ops + 1
  /\ UNCHANGED <<config, thresholds, qualityScores, categorization, categoryCache,
                 rules, ruleHits, now, supplied, parseLog, fired, inflight>>

NextSession == \E activity \in NextActivities : AddActivity(activity)

SpecSession == InitSession /\ [][NextSession]_vars

(***************************************************************************)
(* Properties of the session summary                                       *)
(***************************************************************************)
RECURSIVE SeqSum(_, _)
\* f[1] + ... + f[n]
SeqSum(f, n) == IF n = 0 THEN 0 ELSE f[n] + SeqSum(f, n - 1)

\* the durations of the activities of a list that satisfy Test, added up
TotalWhere(activities, Test(_)) ==
  SeqSum([i \in 1..Len(activities) |->
            IF Test(activities[i]) THEN activities[i].duration ELSE 0],
         Len(activities))

\* the values of a breakdown, added up
BucketSum(breakdown) == SumOver(breakdown, DOMAIN breakdown)

\* C8: for every session reached by addActivity calls, the values of
\* category_breakdown in its summary sum to active_duration + idle_duration,
\* and so do the values of activity_breakdown; every activity's duration (0
\* when absent) is counted in exactly one category bucket and one type bucket:
\* each bucket holds the durations of the activities of its category or type.
C8_BucketSums ==
  \A sessionId \in DOMAIN sessions :
    \A summary \in {getSessionSummary(sessions, sessionId)},
       activities \in {sessions[sessionId].activities} :
       /\ BucketSum(summary.category_breakdown)
            = summary.active_duration + summary.idle_duration
       /\ BucketSum(summary.activity_breakdown)
            = summary.active_duration + summary.idle_duration
       /\ summary.active_duration + summary.idle_duration
            = TotalWhere(activities, LAMBDA a : TRUE)
       /\ \A c \in DOMAIN summary.category_breakdown :
            summary.category_breakdown[c]
              = TotalWhere(activities, LAMBDA a : a.category = c)
       /\ \A t \in DOMAIN summary.activity_breakdown :
            summary.activity_breakdown[t]
              = TotalWhere(activities, LAMBDA a : a.type = t)
       /\ \A i \in 1..Len(activities) :
            /\ activities[i].category \in DOMAIN summary.category_breakdown
            /\ activities[i].type \in DOMAIN summary.activity_breakdown

\* C8 witness: a session with idle and active time and a bucket that holds
\* the durations of more than one activity
C8_Witness ==
  /\ MapHas(sessions, "s1")
  /\ \E summary \in {getSessionSummary(sessions, "s1")} :
       /\ summary.idle_duration > 0
       /\ summary.active_duration > 0
       /\ Cardinality(DOMAIN summary.category_breakdown) >= 3
       /\ MapHas(summary.category_breakdown, "productive")
       /\ summary.category_breakdown["productive"] >= 2000

\* the top_applications of session s1, and the total duration of an application
Top == getSessionSummary(sessions, "s1").top_applications

AppTotal(application) ==
  TotalWhere(sessions["s1"].activities, LAMBDA a : a.application = application)

\* at most 5 entries, each an application of the session with its total, and no
\* application left out has a larger total than one that is listed
TopLargest(top) ==
  /\ Len(top) = Min(TopApplications, Cardinality(AppsMet))
  /\ \A k \in 1..Len(top) :
       top[k].name \in AppsMet /\ top[k].duration = AppTotal(top[k].name)
  /\ \A i, j \in 1..Len(top) : i # j => top[i].name # top[j].name
  /\ \A application \in AppsMet :
       (\A k \in 1..Len(top) : top[k].name # application)
       => \A k \in 1..Len(top) : AppTotal(application) <= top[k].duration

\* C9 as stated: top_applications has at most 5 entries, they are the
\* applications with the largest summed durations, and each entry's duration
\* is strictly greater than the next one's.
C9_Stated ==
  MapHas(sessions, "s1") =>
    \A top \in {Top} :
      /\ TopLargest(top)
      /\ \A k \in 1..(Len(top) - 1) : top[k].duration > top[k + 1].duration

\* C9 amended: top_applications has at most 5 entries, they are the
\* applications with the largest summed durations, and they are sorted in
\* non-increasing order of total duration: each entry's duration is greater
\* than or equal to the next one's (applications with equal totals both appear
\* when there is room).
C9_Ranking ==
  MapHas(sessions, "s1") =>
    \A top \in {Top} :
      /\ TopLargest(top)
      /\ \A k \in 1..(Len(top) - 1) : top[k].duration >= top[k + 1].duration

\* C9 witness: a session of more than 5 applications whose summary lists 5,
\* with both a strict step and a tie between neighbours
C9_Witness ==
  /\ MapHas(sessions, "s1")
  /\ Cardinality(AppsMet) > TopApplications
  /\ \E top \in {Top} :
       /\ Len(top) = TopApplications
       /\ \E k \in 1..(Len(top) - 1) : top[k].duration > top[k + 1].duration
       /\ \E k \in 1..(Len(top) - 1) : top[k].duration = top[k + 1].duration
       /\ \E application \in AppsMet : \A k \in 1..Len(top) : top[k].name # application

(***************************************************************************)
(* SpecScore: a SessionManager handed activities an hour apart whose       *)
(* durations are 20 or 40 minutes                                          *)
(***************************************************************************)
Minute == 60 * 1000

\* type, category and duration of the activities added
ScoreKinds ==
  {[type |-> "coding", category |-> "productive", duration |-> 40 * Minute],
   [type |-> "browsing", category |-> "distracting", duration |-> 20 * Minute],
   [type |-> "idle", category |-> "break", duration |-> 40 * Minute],
   [type |-> "reading", category |-> "learning", duration |-> 20 * Minute]}

ScoreActivities ==
  {[id |-> ActivityIds[ops + 1], timestamp |-> T0 + ops * 60 * Minute,
    device_id |-> "d1", session_id |-> "s1", type |-> k.type,
    category |-> k.category, application |-> "vscode", duration |-> k.duration]
   : k \in ScoreKinds}

NextScore == \E activity \in ScoreActivities : AddActivity(activity)

SpecScore == InitSession /\ [][NextScore]_vars

\* the score as stated: the duration-weighted average of the category weights
\* (productive 1.0, learning 0.9, communication 0.7, neutral 0.5, break 0.4,
\* entertainment 0.2, distracting 0.0) scaled to 0-100, times 1.1 when
\* active/total > 0.8, times 0.9 when active/total < 0.5, clamped to [0,100]
StatedScore(categoryBreakdown, activeDuration, totalDuration) ==
  LET cats == DOMAIN categoryBreakdown
      weightedSum == SumOver([c \in cats |-> categoryWeight(c) * categoryBreakdown[c]],
                             cats)
      totalWeight == SumOver(categoryBreakdown, cats)
      base == Fraction(weightedSum * 10, totalWeight)
      score == IF activeDuration * 10 > 8 * totalDuration
               THEN Fraction(base.num * 11, base.den * 10)
               ELSE IF activeDuration * 2 < totalDuration
                    THEN Fraction(base.num * 9, base.den * 10)
                    ELSE base
  IN IF score.num > 100 * score.den THEN Fraction(100, 1) ELSE score

\* one 40-minute productive activity and one 20-minute distracting activity,
\* 60 minutes from the first to the last
FortyTwenty(summary) ==
  /\ Len(sessions["s1"].activities) = 2
  /\ summary.total_duration = 60 * Minute
  /\ summary.category_breakdown =
       [c \in {"productive", "distracting"} |->
          IF c = "productive" THEN 40 * Minute ELSE 20 * Minute]

\* C15 as stated: the productivity_score of a session with a positive span and
\* positive durations is the stated weighted average with its adjustment; for
\* 40 minutes productive and 20 minutes distracting the base is two thirds of
\* 100, so the score is 1.1 * 200/3 = 220/3.
C15_Stated ==
  \A summary \in {getSessionSummary(sessions, "s1")} :
    (summary # Null /\ summary.total_duration > 0)
    => /\ summary.productivity_score =
            StatedScore(summary.category_breakdown, summary.active_duration,
                        summary.total_duration)
       /\ FortyTwenty(summary) => summary.productivity_score = Fraction(220, 3)

(***************************************************************************)
(* SpecSessions: a SessionManager with two sessions, handed activities     *)
(* whose timestamps arrive in any order, and cleaned up from time to time  *)
(***************************************************************************)
SessionIds == {"s1", "s2"}
Timestamps == {T0, T0 + Minute, T0 + 2 * Minute}

\* the maxAge arguments: with the clock at T0 + 10 minutes the cut-off is
\* T0 + 1 minute, T0 + 2 minutes, or the clock itself
MaxAges == {9 * Minute, 8 * Minute, 0}

TimedActivities ==
  {[id |-> ActivityIds[ops + 1], timestamp |-> timestamp, device_id |-> "d1",
    session_id |-> sessionId, type |-> "typing", category |-> "neutral",
    application |-> "notepad", duration |-> 0]
   : sessionId \in SessionIds, timestamp \in Timestamps}

\* await sessionManager.addActivity(activity)
AddToSession(activity) ==
  /\ ops < MaxSessionOps
  /\ ops < Len(ActivityIds)
  /\ \E added \in {addActivity(sessions, activityBuffer, activity)} :
       /\ sessions' = added.sessions
       /\ activityBuffer' = added.activityBuffer
  /\ last' = [op |-> "addActivity", activity |-> activity,
              before |-> [sessions |-> sessions, activityBuffer |-> activityBuffer]]
  /\ ops' = ops + 1
  /\ UNCHANGED <<config, thresholds, qualityScores, categorization, categoryCache,
                 rules, ruleHits, now, supplied, parseLog, fired, inflight>>

\* sessionManager.cleanupOldSessions(maxAge)
CleanupOldSessions(maxAge) ==
  /\ ops < MaxSessionOps
  /\ \E cleaned \in {cleanupOldSessions(sessions, activityBuffer, now, maxAge)} :
       /\ sessions' = cleaned.sessions
       /\ activityBuffer' = cleaned.activityBuffer
  /\ last' = [op |-> "cleanupOldSessions", maxAge |-> maxAge,
              before |-> [sessions |-> sessions, activityBuffer |-> activityBuffer]]
  /\ ops' = ops + 1
  /\ UNCHANGED <<config, thresholds, qualityScores, categorization, categoryCache,
                 rules, ruleHits, now, supplied, parseLog, fired, inflight>>

NextSessions ==
  \/ \E activity \in TimedActivities : AddToSession(activity)
  \/ \E maxAge \in MaxAges : CleanupOldSessions(maxAge)

SpecSessions == InitSession /\ [][NextSessions]_vars

\* end_time of the session, or start_time when there is no end_time
AgeOf(session) ==
  IF session.end_time = NoTime THEN session.start_time ELSE session.end_time

\* C16: cleanupOldSessions(maxAge) evicts exactly the sessions whose end_time
\* (start_time when there is no end_time) is older than now - maxAge; the
\* record and the duration buffer of each evicted session are both removed,
\* and the record and buffer of every other session are left as they were.
C16_Cleanup ==
  last.op = "cleanupOldSessions" =>
    /\ DOMAIN sessions \subseteq DOMAIN last.before.sessions
    /\ DOMAIN activityBuffer \subseteq DOMAIN last.before.activityBuffer
    /\ \A sessionId \in DOMAIN last.before.sessions :
         IF AgeOf(last.before.sessions[sessionId]) < now - last.maxAge
         THEN ~MapHas(sessions, sessionId) /\ ~MapHas(activityBuffer, sessionId)
         ELSE /\ MapHas(sessions, sessionId)
              /\ sessions[sessionId] = last.before.sessions[sessionId]
              /\ MapHas(activityBuffer, sessionId)
              /\ activityBuffer[sessionId] = last.before.activityBuffer[sessionId]

\* C16 witness: a cleanup evicted one session and kept another whose end_time
\* is the cut-off itself
C16_Witness ==
  /\ last.op = "cleanupOldSessions"
  /\ \E evicted, kept \in DOMAIN last.before.sessions :
       /\ ~MapHas(sessions, evicted) /\ ~MapHas(activityBuffer, evicted)
       /\ MapHas(sessions, kept)
       /\ sessions[kept].end_time = now - last.maxAge
       /\ Len(activityBuffer[kept]) >= 1

\* the largest of the timestamps of a non-empty list of activities
LatestOf(activities) ==
  CHOOSE t \in {activities[i].timestamp : i \in 1..Len(activities)} :
    \A i \in 1..Len(activities) : activities[i].timestamp <= t

\* C17: a session's start_time is the timestamp of the first activity added
\* to it, its end_time is the largest timestamp of the activities added to it
\* and never decreases, and each addActivity appends its activity to the list
\* the session held, so the list holds every added activity in arrival order.
C17_SessionTimes ==
  /\ \A sessionId \in DOMAIN sessions :
       \A session \in {sessions[sessionId]} :
         /\ Len(session.activities) >= 1
         /\ session.start_time = session.activities[1].timestamp
         /\ session.end_time = LatestOf(session.activities)
  /\ last.op = "addActivity" =>
       \A sessionId \in {last.activity.session_id} :
         IF MapHas(last.before.sessions, sessionId)
         THEN /\ sessions[sessionId].activities =
                   Append(last.before.sessions[sessionId].activities, last.activity)
              /\ sessions[sessionId].end_time
                   >= last.before.sessions[sessionId].end_time
              /\ sessions[sessionId].start_time
                   = last.before.sessions[sessionId].start_time
         ELSE sessions[sessionId].activities = <<last.activity>>

\* C17 witness: a session of three activities whose first is not the earliest
\* and whose last is not the latest
C17_Witness ==
  /\ last.op = "addActivity"
  /\ \E sessionId \in DOMAIN sessions :
       \A session \in {sessions[sessionId]} :
         /\ Len(session.activities) = 3
         /\ session.activities[2].timestamp < session.start_time
         /\ session.activities[3].timestamp < session.end_time
         /\ session.activities[2].timestamp < session.activities[3].timestamp


(***************************************************************************)
(* SpecClock: an ActivityParser handed records stamped after the clock,    *)
(* as the test 'should reject low quality activities' builds them:         *)
(*   timestamp: Date.now() + 1000000, data: {}                             *)
(***************************************************************************)
FutureMs == 1000000

\* the record of the test, and its variants with a device or a session id
futureRecord(clock, device_id, session_id) ==
  Raw("test-6", clock + FutureMs, device_id, session_id, "keyboard", EmptyData, "",
      NoContext)

FutureRecords(clock) ==
  {futureRecord(clock, device_id, session_id) :
     device_id \in {"", "d1"}, session_id \in {"", "s1"}}

\* await parser.parseActivity(raw), raw built from the clock just read
ParseFuture == \E raw \in FutureRecords(now) : ParseActivity(raw)

NextClock ==
  \/ ParseFuture
  \/ \E u \in ConfigUpdates : UpdateConfig(u)
  \/ Tick

SpecClock == Init /\ [][NextClock]_vars

\* C19 as stated: a keyboard record stamped 1,000,000 ms after the clock, with
\* empty device_id and session_id, an empty payload, no text and no context,
\* scores below the default min_confidence 0.5, so parseActivity returns null
\* and no session exists for it afterwards.
C19_Stated ==
  (/\ last.op = "parseActivity"
   /\ last.raw = futureRecord(now, "", "")
   /\ config.min_confidence = quality_thresholds.min_confidence)
  => /\ scoreBelow(analyze(last.raw, thresholds, now), quality_thresholds.min_confidence)
     /\ last.result = Null
     /\ ~MapHas(sessions, "")

(***************************************************************************)
(* SpecDuration: a SessionManager asked for durations between additions;   *)
(* the activities are one, five or six minutes apart, in any order, and an *)
(* id may be added more than once                                          *)
(***************************************************************************)
MaxDurationOps == 3

GapIds == {"a", "b", "c"}
GapTimes == {T0, T0 + Minute, T0 + 6 * Minute}

GapActivity(id, timestamp, sessionId) ==
  [id |-> id, timestamp |-> timestamp, device_id |-> "d1", session_id |-> sessionId,
   type |-> "typing", category |-> "neutral", application |-> "notepad",
   duration |-> 0]

GapActivities ==
  {GapActivity(id, timestamp, "s1") : id \in GapIds, timestamp \in GapTimes}
  \cup {GapActivity("a", T0 + Minute, "s2")}

\* await sessionManager.addActivity(activity)
AddGap(activity) == ops < MaxDurationOps /\ AddToSession(activity)

\* await sessionManager.calculateDuration(activity)
CalculateDuration(activity) ==
  /\ last' = [op |-> "calculateDuration", activity |-> activity,
              result |-> calculateDuration(activityBuffer, activity)]
  /\ UNCHANGED <<config, thresholds, qualityScores, categorization, categoryCache,
                 rules, ruleHits, sessions, activityBuffer, now, ops, supplied,
                 parseLog, fired, inflight>>

NextDuration ==
  \/ \E activity \in GapActivities : AddGap(activity)
  \/ \E activity \in GapActivities : CalculateDuration(activity)

SpecDuration == InitSession /\ [][NextDuration]_vars

\* the buffer of a session, empty when it has none
BufferOf(sessionId) ==
  IF MapHas(activityBuffer, sessionId) THEN activityBuffer[sessionId] ELSE <<>>

\* the positions of the buffer entries that carry the id
PositionsOf(buffer, id) == {i \in 1..Len(buffer) : buffer[i].id = id}

\* C21: calculateDuration(activity) returns the gap between the activity's
\* timestamp and the timestamp of the entry just before the activity's (first)
\* position in its session's buffer, when that position is not the first and
\* the gap is strictly between 0 and MAX_IDLE_TIME (5 minutes); it returns
\* null when the buffer has fewer than two entries, the activity is not in it
\* or is first in it, the gap is <= 0, or the gap is >= 5 minutes.
C21_Duration ==
  last.op = "calculateDuration" =>
    \A buffer \in {BufferOf(last.activity.session_id)} :
      \A positions \in {PositionsOf(buffer, last.activity.id)} :
        IF positions # {} /\ FirstOf(positions) > 1
        THEN \A gap \in {last.activity.timestamp
                         - buffer[FirstOf(positions) - 1].timestamp} :
               IF gap > 0 /\ gap < 5 * Minute
               THEN last.result = gap
               ELSE last.result = 0
        ELSE last.result = 0

\* C21 witness: a duration of one minute was returned for the last of three
\* buffered activities
C21_Witness ==
  /\ last.op = "calculateDuration"
  /\ last.result = Minute
  /\ Len(BufferOf(last.activity.session_id)) = 3
  /\ PositionsOf(BufferOf(last.activity.session_id), last.activity.id) = {3}

(***************************************************************************)
(* SpecBuffer: a SessionManager whose session s1 grows past the size of    *)
(* its duration buffer, next to a short and older session s2, with         *)
(* cleanups in between                                                     *)
(***************************************************************************)
MaxBufferLen == 102

\* the number of activities a session holds
Held0(sessionId) ==
  IF MapHas(sessions, sessionId) THEN Len(sessions[sessionId].activities) ELSE 0

\* the activities the next addActivity may be handed: the next one of s1, a
\* second later than the one before, while s1 holds fewer than MaxBufferLen,
\* or one of s2, an hour older, while s2 holds fewer than two
BufferedActivities ==
  (IF Held0("s1") >= MaxBufferLen THEN {}
   ELSE {GapActivity(ToString(Held0("s1") + 1), T0 + Held0("s1") * 1000, "s1")})
  \cup (IF Held0("s2") >= 2 THEN {}
        ELSE {GapActivity("old", T0 - 60 * Minute, "s2")})

\* with the clock at T0 + 10 minutes: every session is older, or s2 only
BufferMaxAges == {0, 30 * Minute}

\* the activity list and the buffer a session has
Held(sessionId) ==
  [activities |-> IF MapHas(sessions, sessionId) THEN sessions[sessionId].activities
                  ELSE <<>>,
   buffer |-> IF MapHas(activityBuffer, sessionId) THEN activityBuffer[sessionId]
              ELSE <<>>]

\* await sessionManager.addActivity(activity)
AddBuffered(activity) ==
  /\ Held0(activity.session_id) < MaxBufferLen
  /\ \E added \in {addActivity(sessions, activityBuffer, activity)} :
       /\ sessions' = added.sessions
       /\ activityBuffer' = added.activityBuffer
  /\ last' = [op |-> "addActivity", activity |-> activity,
              before |-> Held(activity.session_id)]
  /\ UNCHANGED <<config, thresholds, qualityScores, categorization, categoryCache,
                 rules, ruleHits, now, ops, supplied, parseLog, fired, inflight>>

\* sessionManager.cleanupOldSessions(maxAge)
CleanupBuffered(maxAge) ==
  /\ \E cleaned \in {cleanupOldSessions(sessions, activityBuffer, now, maxAge)} :
       /\ sessions' = cleaned.sessions
       /\ activityBuffer' = cleaned.activityBuffer
       /\ last' = [op |-> "cleanupOldSessions", maxAge |-> maxAge,
                   removed |-> (DOMAIN sessions) \ (DOMAIN cleaned.sessions)]
  /\ UNCHANGED <<config, thresholds, qualityScores, categorization, categoryCache,
                 rules, ruleHits, now, ops, supplied, parseLog, fired, inflight>>

NextBuffer ==
  \/ \E activity \in BufferedActivities : AddBuffered(activity)
  \/ \E maxAge \in BufferMaxAges : CleanupBuffered(maxAge)

SpecBuffer == InitSession /\ [][NextBuffer]_vars

\* C22: no duration buffer holds more than 100 activities once addActivity has
\* completed; an addActivity on a full buffer drops its oldest entry and puts
\* the new activity last, and the session's own activity list grows by the
\* activity and is never cut.
C22_BufferCap ==
  /\ \A sessionId \in DOMAIN activityBuffer : Len(activityBuffer[sessionId]) <= 100
  /\ last.op = "addActivity" =>
       \A sessionId \in {last.activity.session_id} :
         /\ sessions[sessionId].activities
              = Append(last.before.activities, last.activity)
         /\ activityBuffer[sessionId] =
              IF Len(last.before.buffer) >= 100
              THEN Append(Tail(last.before.buffer), last.activity)
              ELSE Append(last.before.buffer, last.activity)

\* C22 witness: the 101st activity of a session was added: the buffer holds
\* 100 and starts with the second activity, the list holds all 101
C22_Witness ==
  /\ last.op = "addActivity" /\ last.activity.session_id = "s1"
  /\ Len(last.before.buffer) = 100
  /\ Len(activityBuffer["s1"]) = 100
  /\ Len(sessions["s1"].activities) = 101
  /\ activityBuffer["s1"][1] = sessions["s1"].activities[2]

(***************************************************************************)
(* SpecDominant: a SessionManager handed activities of two applications    *)
(* whose categories differ from one activity to the next                   *)
(***************************************************************************)
DominantApps == {"vscode", "chrome"}
DominantCategories == {"productive", "learning", "distracting", "break"}

DominantActivities ==
  {[id |-> ActivityIds[ops + 1], timestamp |-> T0 + ops * 1000, device_id |-> "d1",
    session_id |-> "s1", type |-> "typing", category |-> category,
    application |-> application, duration |-> 1000]
   : application \in DominantApps, category \in DominantCategories}

NextDominant == \E activity \in DominantActivities : AddToSession(activity)

SpecDominant == InitSession /\ [][NextDominant]_vars

\* the fixed order: productive > learning > communication > neutral >
\* entertainment > distracting > break (1 is the highest)
CategoryRank(category) ==
  CASE category = "productive" -> 1
    [] category = "learning" -> 2
    [] category = "communication" -> 3
    [] category = "neutral" -> 4
    [] category = "entertainment" -> 5
    [] category = "distracting" -> 6
    [] category = "break" -> 7

\* the number of activities of the application that carry the category
CategoryCount(activities, application, category) ==
  Len(SelectSeq(activities,
                LAMBDA a : a.application = application /\ a.category = category))

\* the categories the application's activities carry most often
MostFrequent(activities, application) ==
  {c \in DominantCategories :
     /\ CategoryCount(activities, application, c) > 0
     /\ \A d \in DominantCategories :
          CategoryCount(activities, application, d)
            <= CategoryCount(activities, application, c)}

\* C23 as stated: each top_applications entry carries the most frequent
\* category of its application's activities, and among several most frequent
\* categories the one first in the fixed order, whatever order the activities
\* arrived in.
C23_Stated ==
  MapHas(sessions, "s1") =>
    \A activities \in {sessions["s1"].activities} :
      \A top \in {getSessionSummary(sessions, "s1").top_applications} :
        \A k \in 1..Len(top) :
          \A tied \in {MostFrequent(activities, top[k].name)} :
            /\ top[k].category \in tied
            /\ \A c \in tied : CategoryRank(top[k].category) <= CategoryRank(c)

(***************************************************************************)
(* The quality score                                                       *)
(***************************************************************************)
\* the sub-scores of a record with the weight (in tenths) named for each:
\* completeness 2, text quality 3, context quality 2, temporal consistency 2,
\* anomaly-free 1; the text and the context sub-scores only when present
OwnWeights(a, thresholds_, clock) ==
  <<[weight |-> 2, score |-> calculateCompletenessScore(a)]>>
  \o (IF a.processed_text # ""
      THEN <<[weight |-> 3,
              score |-> calculateTextQualityScore(a.processed_text,
                                                  thresholds_.min_text_length)]>>
      ELSE <<>>)
  \o (IF a.context.present
      THEN <<[weight |-> 2, score |-> calculateContextScore(a.context)]>>
      ELSE <<>>)
  \o <<[weight |-> 2, score |-> calculateTemporalScore(a, clock)]>>
  \o <<[weight |-> 1, score |-> detectAnomalies(a)]>>

\* the weighted average of the sub-scores present, each under its own weight
StatedQuality(a, thresholds_, clock) ==
  Only({[num |-> SumTo([i \in 1..Len(own) |-> own[i].weight * own[i].score], Len(own)),
         den |-> SumTo([i \in 1..Len(own) |-> own[i].weight], Len(own))]
        : own \in {OwnWeights(a, thresholds_, clock)}})

\* two fractions of the same value
SameFraction(p, q) == p.num * q.den = q.num * p.den

\* C24 as stated: the score analyze gives a record is the weighted average of
\* the sub-scores present, completeness under 0.2, text quality under 0.3,
\* context quality under 0.2, temporal consistency under 0.2 and anomaly-free
\* under 0.1, an absent text or context taking its own weight out of the sum.
C24_Stated ==
  last.op = "parseActivity" =>
    SameFraction(qualityScores[Len(qualityScores)],
                 StatedQuality(last.raw, thresholds, now))

\* a fraction in units of 1/One that lies in [0, 1]
InUnitInterval(q) == q.den > 0 /\ 0 <= q.num /\ q.num <= One * q.den

\* C25: every score analyze has returned lies in [0, 1], whatever the record
\* and the thresholds in force, and the quality_score and the metadata
\* confidence of a ParsedActivity are the score analyze gave its record.
C25_ScoreRange ==
  /\ \A i \in 1..Len(qualityScores) : InUnitInterval(qualityScores[i])
  /\ Parsed =>
       /\ qualityScores[Len(qualityScores)] = analyze(last.raw, thresholds, now)
       /\ last.result # Null =>
            /\ last.result.quality_score = qualityScores[Len(qualityScores)]
            /\ last.result.metadata.confidence = qualityScores[Len(qualityScores)]

\* C25 witness: a record whose text sub-score is capped at 1 was accepted with
\* a score strictly between 0 and 1
C25_Witness ==
  /\ Parsed /\ last.result # Null
  /\ last.raw.processed_text # "" /\ hasProperStructure(last.raw.processed_text)
  /\ last.result.quality_score.num > 0
  /\ last.result.quality_score.num < One * last.result.quality_score.den

(***************************************************************************)
(* SpecNoApp: an ActivityCategorizer handed records that name no           *)
(* application, with or without a context and a url                        *)
(***************************************************************************)
NoAppRecords ==
  {Raw("x", T0, "d1", "s1", "window", EmptyData, "", NoContext)}
  \cup {CatRecord("", url) : url \in CatUrls}

NoAppTypes == {"coding", "idle", "typing"}

NextNoApp ==
  \/ \E activity \in NoAppRecords, type \in NoAppTypes : Categorize(activity, type)
  \/ \E u \in CatUpdates : UpdateCategorization(u)

SpecNoApp == InitCategorizer /\ [][NextNoApp]_vars

\* C26 as stated: for a record without an application name categorize returns
\* the category its url implies when the url matches a domain set, and the
\* category its inferred type implies otherwise, whichever records without an
\* application name were categorized before it.
C26_Stated ==
  (last.op = "categorize" /\ last.activity.context.application = "")
  => last.category =
       IF last.activity.context.url # ""
          /\ categorizeByUrl(last.activity.context.url) # ""
       THEN categorizeByUrl(last.activity.context.url)
       ELSE categorizeByType(last.type)

(***************************************************************************)
(* SpecMicrotasks: batchParse followed microtask by microtask.  Every call *)
(* of the batch runs to its first await when the list is mapped; then the  *)
(* suspended calls resume one at a time, in the order they were suspended, *)
(* each up to its next await.  last.log lists, in the order they happen,   *)
(* the calculateDuration and addActivity calls made on the SessionManager. *)
(***************************************************************************)
MicrotaskRecords == {RA, RB, RDoc}

MicrotaskLists == UNION {[1..n -> MicrotaskRecords] : n \in 1..MaxBatch}

\* the call the microtask queue resumes next: the first suspended call at or
\* after turn, or else the first suspended call
nextCall(calls, turn) ==
  Only({IF {i \in suspended : i >= turn} # {}
        THEN FirstOf({i \in suspended : i >= turn})
        ELSE FirstOf(suspended)
        : suspended \in {{i \in 1..Len(calls) : calls[i].pc # "done"}}})

\* the SessionManager call a continuation makes, if any
sessionCall(call, i) ==
  IF call.pc = "apply"
  THEN <<[op |-> "calculateDuration", call |-> i, session_id |-> call.raw.session_id]>>
  ELSE IF call.pc = "calculateDuration"
  THEN <<[op |-> "addActivity", call |-> i, session_id |-> call.raw.session_id]>>
  ELSE <<>>

\* parser.batchParse(activities), up to the await of Promise.all
StartBatch(activities) ==
  /\ ops < MaxPre
  /\ inflight = Null
  /\ \E started \in {startAll(Environment, Pipeline, activities, <<>>, 1)} :
       /\ SetPipeline(started.P)
       /\ inflight' = [calls |-> started.calls, turn |-> 1]
  /\ last' = [op |-> "batchStart", activities |-> activities, log |-> <<>>,
              before |-> Pipeline]
  /\ ops' = ops + 1
  /\ UNCHANGED <<config, thresholds, categorization, rules, now, supplied, parseLog,
                 fired>>

\* one microtask: a suspended call runs from its await to the next one
ResumeCall ==
  /\ inflight # Null
  /\ \E i \in 1..Len(inflight.calls) : inflight.calls[i].pc # "done"
  /\ \E i \in {nextCall(inflight.calls, inflight.turn)} :
     \E next \in {parseStep(Environment, Pipeline, inflight.calls[i])} :
       /\ SetPipeline(next.P)
       /\ inflight' = [calls |-> [inflight.calls EXCEPT ![i] = next.call],
                       turn |-> i + 1]
       /\ last' = [last EXCEPT !.op = "microtask",
                               !.log = @ \o sessionCall(inflight.calls[i], i)]
  /\ UNCHANGED <<config, thresholds, categorization, rules, now, ops, supplied,
                 parseLog, fired>>

\* Promise.all settles once every call has returned
SettleBatch ==
  /\ inflight # Null
  /\ \A i \in 1..Len(inflight.calls) : inflight.calls[i].pc = "done"
  /\ inflight' = Null
  /\ last' = [last EXCEPT !.op = "batchParse"]
  /\ UNCHANGED <<config, thresholds, qualityScores, categorization, categoryCache,
                 rules, ruleHits, sessions, activityBuffer, now, ops, supplied,
                 parseLog, fired>>

NextMicrotasks ==
  \/ \E activities \in MicrotaskLists : StartBatch(activities)
  \/ ResumeCall
  \/ SettleBatch

SpecMicrotasks == Init /\ [][NextMicrotasks]_vars

\* the ids of a list of activities or records
IdsOf(list) == [k \in 1..Len(list) |-> list[k].id]

\* C27 as stated: while the calls of a batch are in flight, no other record's
\* addActivity for the same session happens between a record's
\* calculateDuration and its own addActivity; and once the batch has settled,
\* each session's list and buffer hold the batch's records of that session in
\* input order, none missing.
C27_Stated ==
  last.op \in {"batchStart", "microtask", "batchParse"} =>
    /\ \A p, q, r \in 1..Len(last.log) :
         ~ /\ p < q /\ q < r
           /\ last.log[p].op = "calculateDuration"
           /\ last.log[r].op = "addActivity"
           /\ last.log[r].call = last.log[p].call
           /\ last.log[q].op = "addActivity"
           /\ last.log[q].call # last.log[p].call
           /\ last.log[q].session_id = last.log[p].session_id
    /\ last.op = "batchParse" =>
         \A sessionId \in {"s1", "s2"} :
           \A ids \in {IdsOf(SelectSeq(last.activities,
                                       LAMBDA raw : raw.session_id = sessionId))} :
             IF ids = <<>> THEN ~MapHas(sessions, sessionId)
             ELSE /\ IdsOf(sessions[sessionId].activities) = ids
                  /\ IdsOf(activityBuffer[sessionId]) = ids

(***************************************************************************)
(* Properties of the session times and of the duration buffer              *)
(***************************************************************************)
\* C28: addActivity on an existing session leaves its start_time as it was,
\* also for an activity older than the session's first one; every session's
\* end_time is at least its start_time, and the total_duration of every
\* summary is not negative.
C28_NonNegativeSpan ==
  /\ \A sessionId \in DOMAIN sessions :
       /\ sessions[sessionId].end_time >= sessions[sessionId].start_time
       /\ getSessionSummary(sessions, sessionId).total_duration >= 0
  /\ (last.op = "addActivity" /\ MapHas(last.before.sessions, last.activity.session_id))
     => sessions[last.activity.session_id].start_time
          = last.before.sessions[last.activity.session_id].start_time

\* C28 witness: an activity older than the first activity of its session was
\* added, and the summary spans from the first activity to a later one
C28_Witness ==
  /\ last.op = "addActivity"
  /\ MapHas(last.before.sessions, last.activity.session_id)
  /\ last.activity.timestamp
       < last.before.sessions[last.activity.session_id].start_time
  /\ getSessionSummary(sessions, last.activity.session_id).total_duration > 0

\* the last n entries of a list
LastN(list, n) == SubSeq(list, Len(list) - n + 1, Len(list))

\* C29: after any sequence of addActivity and cleanupOldSessions calls the
\* sessions that have a duration buffer are the sessions that have a record,
\* and each buffer is the last min(100, n) activities of its session's list of
\* n activities, in the same order.
C29_BufferSuffix ==
  /\ DOMAIN activityBuffer = DOMAIN sessions
  /\ \A sessionId \in DOMAIN sessions :
       activityBuffer[sessionId] =
         LastN(sessions[sessionId].activities,
               Min(100, Len(sessions[sessionId].activities)))

\* C29 witness: a cleanup removed the older session and kept one that holds
\* more activities than its buffer does
C29_Witness ==
  /\ last.op = "cleanupOldSessions" /\ last.removed = {"s2"}
  /\ ~MapHas(sessions, "s2") /\ ~MapHas(activityBuffer, "s2")
  /\ MapHas(sessions, "s1")
  /\ Len(sessions["s1"].activities) > 100
  /\ Len(activityBuffer["s1"]) = 100
  /\ activityBuffer["s1"][1]
       = sessions["s1"].activities[Len(sessions["s1"].activities) - 99]

(***************************************************************************)
(* Properties of the error path of parseActivity                           *)
(***************************************************************************)
\* C30: a parseActivity call in which content extraction or rule application
\* raises an error returns null and leaves the sessions and the duration
\* buffers as they were; every call raises getTotalActivities (totalParsed of
\* getStatistics) by one when it returns a ParsedActivity and by nothing when
\* it returns null.
C30_ErrorPath ==
  Parsed =>
    /\ (~BelowThreshold /\ Raises) =>
         /\ last.result = Null
         /\ sessions = last.before.sessions
         /\ activityBuffer = last.before.activityBuffer
    /\ getTotalActivities(sessions) =
         getTotalActivities(last.before.sessions)
         + (IF last.result = Null THEN 0 ELSE 1)

\* C30 witness: a rule with an invalid regular expression raised an error on a
\* record of good quality whose session already held an activity
C30_Witness ==
  /\ Parsed /\ ~BelowThreshold /\ last.result = Null
  /\ apply(rules, NoHits, last.raw).threw
  /\ ~extractActions(last.raw).threw
  /\ MapHas(sessions, last.raw.session_id)
  /\ getTotalActivities(sessions) >= 1

====
